---- MODULE Spec2Model ----
(***************************************************************************)
(* Product Hunt launch assistant: the coordinator, the three agents        *)
(* (planning, asset_prep, research), the model-response extraction and     *)
(* fallback pipeline they share, and the launch-date helpers.              *)
(*                                                                         *)
(* Python values are modelled as JSON nodes of one uniform record shape:   *)
(*   [k, type, s, n, items]                                                *)
(* k is the key when the node is a member of an object ("" otherwise),     *)
(* type is one of "null" "string" "number" "list" "object" "char",         *)
(* s holds the pieces of a string (single characters for text that the     *)
(* code scans or slices, whole words for text it only concatenates),       *)
(* n the value of a number, items the elements of a list or the members    *)
(* of an object.                                                           *)
(*                                                                         *)
(* A model response is a sequence of tokens.  A token is a character       *)
(* (type "char") or one member `"key": value` of a JSON object, which      *)
(* stands for the member together with its separating comma.               *)
(***************************************************************************)
EXTENDS Integers, Sequences, FiniteSets, TLC

\* ------------------------------------------------------------------ bounds
\* Longest model response, in tokens.
MaxLen == 3

\* Largest bare-integer launch date ("0" .. "MaxN"); at most 30.
MaxN == 5

\* The requests arrive on days 1..MaxToday (1 January 2025 onwards).
MaxToday == 3

\* Written launch dates lie from 2 days before today to MaxAhead days after it.
MaxAhead == 14

\* The functions on their own are called on days 1..MaxDay: every weekday.
MaxDay == 8

\* Timelines handed to _extract_milestones hold up to MaxTasks tasks, up to
\* MaxOther of them of a priority other than "High".
MaxTasks == 7
MaxOther == 2

\* Model texts handed to the line scanners hold up to MaxLines lines, up to
\* MaxOther of them of a kind other than a list line.
MaxLines == 6

\* The agent's answer to a streamed chat holds up to MaxText characters.
MaxText == 5

\* ------------------------------------------------------------ Python values
JNull == [k |-> "", type |-> "null", s |-> <<>>, n |-> 0, items |-> <<>>]

JStr(pieces) == [k |-> "", type |-> "string", s |-> pieces, n |-> 0, items |-> <<>>]

JNum(v) == [k |-> "", type |-> "number", s |-> <<>>, n |-> v, items |-> <<>>]

JList(elems) == [k |-> "", type |-> "list", s |-> <<>>, n |-> 0, items |-> elems]

JObj(members) == [k |-> "", type |-> "object", s |-> <<>>, n |-> 0, items |-> members]

Member(key, v) == [v EXCEPT !.k = key]

Ch(c) == [k |-> "", type |-> "char", s |-> <<c>>, n |-> 0, items |-> <<>>]

\* The outcome of a Python expression: a value, or a raised exception with
\* its message (str(e)).
Ok(v) == [ok |-> TRUE, val |-> v, err |-> <<>>]

Raise(msg) == [ok |-> FALSE, val |-> JNull, err |-> msg]

SetMin(S) == CHOOSE x \in S : \A y \in S : x <= y

SetMax(S) == CHOOSE x \in S : \A y \in S : x >= y

\* dict.get(key, default): the value stored under key, else default.
DictGet(obj, key, default) ==
    LET hits == {i \in 1..Len(obj.items) : obj.items[i].k = key}
    IN  IF hits = {} THEN default ELSE Member("", obj.items[SetMax(hits)])

DictHas(obj, key) == \E i \in 1..Len(obj.items) : obj.items[i].k = key

\* d[key] = v: replaces the value of an existing key in place, else appends.
DictSet(obj, key, v) ==
    IF DictHas(obj, key)
    THEN [obj EXCEPT !.items =
            [i \in 1..Len(obj.items) |->
                IF obj.items[i].k = key THEN Member(key, v) ELSE obj.items[i]]]
    ELSE [obj EXCEPT !.items = Append(obj.items, Member(key, v))]

DictKeys(obj) == {obj.items[i].k : i \in 1..Len(obj.items)}

\* ---------------------------------------------------------------- texts
IsChar(tok, c) == tok.type = "char" /\ tok.s = <<c>>

Whitespace == {" ", "\n", "\t"}

IsSpace(tok) == tok.type = "char" /\ tok.s[1] \in Whitespace

\* A search that stops at the first "}" after the first "{".
JsonMatchShortest(response) ==
    LET lbs == {i \in 1..Len(response) : IsChar(response[i], "{")}
        first == IF lbs = {} THEN 0 ELSE SetMin(lbs)
        rbs == {i \in 1..Len(response) : IsChar(response[i], "}") /\ i > first}
    IN  IF lbs = {} \/ rbs = {}
        THEN [found |-> FALSE, group |-> <<>>]
        ELSE [found |-> TRUE, group |-> SubSeq(response, first, SetMin(rbs))]

\* re.search(r"\{.*\}", response, re.DOTALL): the greedy span from the first
\* "{" to the last "}" after it; found is FALSE when there is none.
JsonMatch(response) ==
    LET lbs == {i \in 1..Len(response) : IsChar(response[i], "{")}
        first == IF lbs = {} THEN 0 ELSE SetMin(lbs)
        rbs == {i \in 1..Len(response) : IsChar(response[i], "}") /\ i > first}
    IN  IF lbs = {} \/ rbs = {}
        THEN [found |-> FALSE, group |-> <<>>]
        ELSE [found |-> TRUE, group |-> SubSeq(response, first, SetMax(rbs))]

RECURSIVE BuildDict(_, _)
BuildDict(members, acc) ==
    IF members = <<>> THEN acc
    ELSE BuildDict(Tail(members), DictSet(acc, Head(members).k, Head(members)))

\* json.loads of a span "{ ... }": an object when everything between the
\* braces is members (whitespace allowed), a repeated key keeping its last
\* value; JSONDecodeError otherwise.
JsonLoads(group) ==
    LET inner == SubSeq(group, 2, Len(group) - 1)
        toks == SelectSeq(inner, LAMBDA t : ~IsSpace(t))
    IN  IF \A i \in 1..Len(toks) : toks[i].k # ""
        THEN Ok(BuildDict(toks, JObj(<<>>)))
        ELSE Raise(<<"JSONDecodeError">>)

\* ------------------------------------------------------------ app/utils.py
RECURSIVE LStrip(_)
LStrip(s) ==
    IF s = <<>> THEN s
    ELSE IF Head(s) \in Whitespace THEN LStrip(Tail(s)) ELSE s

RECURSIVE RStrip(_)
RStrip(s) ==
    IF s = <<>> THEN s
    ELSE IF s[Len(s)] \in Whitespace THEN RStrip(SubSeq(s, 1, Len(s) - 1)) ELSE s

\* str.strip()
Strip(s) == RStrip(LStrip(s))

\* re.sub(r"\s+", " ", s): every run of whitespace becomes one space.
RECURSIVE CollapseSpace(_)
CollapseSpace(s) ==
    IF s = <<>> THEN s
    ELSE IF Head(s) \in Whitespace
         THEN <<" ">> \o CollapseSpace(LStrip(s))
         ELSE <<Head(s)>> \o CollapseSpace(Tail(s))

\* The grave accent is written "GRAVE": one piece standing for that character.
Markdown == {"*", "_", "GRAVE"}

\* re.sub(r"[*_`]", "", s)
RemoveMarkdown(s) == SelectSeq(s, LAMBDA c : c \notin Markdown)

\* clean_text on the pieces of a string: whitespace first, markdown second.
CleanPieces(s) == RemoveMarkdown(CollapseSpace(Strip(s)))

TypeName(v) ==
    CASE v.type = "null" -> "NoneType"
      [] v.type = "number" -> "int"
      [] v.type = "list" -> "list"
      [] v.type = "object" -> "dict"
      [] OTHER -> "str"

\* clean_text(text): text.strip() exists on strings only.
CleanText(v) ==
    IF v.type = "string"
    THEN Ok(JStr(CleanPieces(v.s)))
    ELSE Raise(<<"'", TypeName(v), "' object has no attribute 'strip'">>)

\* json.dumps(v), in one piece: the characters a value is written with.
RECURSIVE JsonDumps(_)
JsonDumps(v) ==
    LET Joined(items) ==
            [i \in 1..Len(items) |->
                (IF items[i].k = "" THEN "" ELSE "\"" \o items[i].k \o "\": ")
                \o JsonDumps(items[i]) \o (IF i < Len(items) THEN ", " ELSE "")]
        Concat[i \in 0..Len(v.items)] ==
            IF i = 0 THEN "" ELSE Concat[i - 1] \o Joined(v.items)[i]
        Pieces[i \in 0..Len(v.s)] ==
            IF i = 0 THEN "" ELSE Pieces[i - 1] \o v.s[i]
    IN  CASE v.type = "null" -> "null"
          [] v.type = "number" -> ToString(v.n)
          [] v.type = "string" -> "\"" \o Pieces[Len(v.s)] \o "\""
          [] v.type = "list" -> "[" \o Concat[Len(v.items)] \o "]"
          [] OTHER -> "{" \o Concat[Len(v.items)] \o "}"

\* The characters of a response, as the pieces of one Python string: a
\* character token is one piece, a member token the piece that writes it.
TextOf(response) ==
    JStr([i \in 1..Len(response) |->
            IF response[i].type = "char" THEN response[i].s[1]
            ELSE "\"" \o response[i].k \o "\": " \o JsonDumps(response[i])])

\* `for x in v`: the elements of a list, the characters of a string, the
\* keys of a dict; TypeError for None and numbers.
Iterate(v) ==
    CASE v.type = "list" -> Ok(JList(v.items))
      [] v.type = "string" -> Ok(JList([i \in 1..Len(v.s) |-> JStr(<<v.s[i]>>)]))
      [] v.type = "object" -> Ok(JList([i \in 1..Len(v.items) |-> JStr(<<v.items[i].k>>)]))
      [] OTHER -> Raise(<<"'", TypeName(v), "' object is not iterable">>)

\* [clean_text(x) for x in v]
CleanEach(v) ==
    LET it == Iterate(v)
    IN  IF ~it.ok THEN it
        ELSE LET cleaned == [i \in 1..Len(it.val.items) |-> CleanText(it.val.items[i])]
                 bad == {i \in 1..Len(cleaned) : ~cleaned[i].ok}
             IN  IF bad # {} THEN cleaned[SetMin(bad)]
                 ELSE Ok(JList([i \in 1..Len(cleaned) |-> cleaned[i].val]))

\* seq[:n]
Take(seq, n) == SubSeq(seq, 1, IF Len(seq) < n THEN Len(seq) ELSE n)

\* str(v) as an f-string renders it.
PyStr(v) ==
    CASE v.type = "string" -> v.s
      [] v.type = "number" -> <<ToString(v.n)>>
      [] v.type = "null" -> <<"None">>
      [] OTHER -> <<"<", TypeName(v), ">">>

\* A list of strings, each given by its pieces.
StrList(strs) == JList([i \in 1..Len(strs) |-> JStr(strs[i])])

RECURSIVE SplitLines(_, _)
\* str.split("\n"): cur is the line being read.
SplitLines(s, cur) ==
    IF s = <<>> THEN <<cur>>
    ELSE IF Head(s) = "\n" THEN <<cur>> \o SplitLines(Tail(s), <<>>)
         ELSE SplitLines(Tail(s), Append(cur, Head(s)))

Digits == {"0", "1", "2", "3", "4", "5", "6", "7", "8", "9"}

\* line and (line.startswith("-") or line.startswith(bullet) or line[0].isdigit())
IsListLine(line) ==
    /\ line # <<>>
    /\ \/ line[1] = "-"
       \/ line[1] = "BULLET"
       \/ line[1] \in Digits

\* ----------------------------------------------------------- the calendar
\* A datetime is [d, t]: d counts days, day 1 being Wednesday 1 January 2025,
\* and t is the time of day (0 is midnight).  Years have 365 days: the model
\* stays within 2025-2027 and the last days of 2024.
MonthDays == <<31, 28, 31, 30, 31, 30, 31, 31, 30, 31, 30, 31>>

RECURSIVE DaysBeforeMonth(_)
DaysBeforeMonth(m) == IF m <= 1 THEN 0 ELSE DaysBeforeMonth(m - 1) + MonthDays[m - 1]

YearOf(d) == 2025 + ((d - 1) \div 365)

DayOfYear(d) == ((d - 1) % 365) + 1

MonthOf(d) == SetMin({m \in 1..12 : DayOfYear(d) <= DaysBeforeMonth(m) + MonthDays[m]})

DayOfMonth(d) == DayOfYear(d) - DaysBeforeMonth(MonthOf(d))

DateOrdinal(y, m, dom) == (y - 2025) * 365 + DaysBeforeMonth(m) + dom

\* datetime.weekday(): Monday is 0.
Weekday(d) == (d + 1) % 7

WeekdayNames == <<"Monday", "Tuesday", "Wednesday", "Thursday", "Friday", "Saturday", "Sunday">>

MonthNames == <<"January", "February", "March", "April", "May", "June", "July",
                "August", "September", "October", "November", "December">>

\* dt + timedelta(days=n)
PlusDays(dt, n) == [dt EXCEPT !.d = dt.d + n]

\* dt.replace(hour=0, minute=0, second=0, microsecond=0)
Midnight(dt) == [dt EXCEPT !.t = 0]

\* A decimal numeral is one piece of a string.  The numerals of the model's
\* texts: days, months, bare integers, and the years of the calendar.
NumeralValues == (0..99) \cup (2024..2027)

Numerals == {ToString(v) : v \in NumeralValues}

NumOf(piece) == CHOOSE v \in NumeralValues : ToString(v) = piece

\* str.isdigit()
IsDigit(text) == text.s # <<>> /\ \A i \in 1..Len(text.s) : text.s[i] \in Numerals

\* int(text) of a numeral
IntOf(text) == NumOf(text.s[1])

\* str.lower() of one word
LowerWord(w) ==
    CASE w \in {"Next", "NEXT"} -> "next"
      [] w \in {"Tuesday", "TUESDAY"} -> "tuesday"
      [] w \in {"Friday", "FRIDAY"} -> "friday"
      [] OTHER -> w

\* `word in text.lower()`
ContainsWord(text, word) == \E i \in 1..Len(text.s) : LowerWord(text.s[i]) = word

\* dateutil's parser.parse(text), default = today at midnight.  A lone numeral up
\* to 31 is a day of the current month, a larger one a year; y-m-d is a full
\* date; anything else the model feeds it (words, the empty string) is an
\* error, as is a day the month does not have.
DateutilParse(text, now) ==
    LET p == text.s
    IN  CASE Len(p) = 1 /\ p[1] \in Numerals ->
                LET v == NumOf(p[1])
                IN  IF v > 31
                    THEN Ok([d |-> DateOrdinal(IF v < 100 THEN 2000 + v ELSE v,
                                               MonthOf(now.d), DayOfMonth(now.d)),
                             t |-> 0])
                    ELSE IF v >= 1 /\ v <= MonthDays[MonthOf(now.d)]
                         THEN Ok([d |-> DateOrdinal(YearOf(now.d), MonthOf(now.d), v), t |-> 0])
                         ELSE Raise(<<"day is out of range for month: ">> \o p)
          [] Len(p) = 5 /\ p[2] = "-" /\ p[4] = "-"
                /\ p[1] \in Numerals /\ p[3] \in Numerals /\ p[5] \in Numerals ->
                LET y == NumOf(p[1])
                    m == NumOf(p[3])
                    dom == NumOf(p[5])
                IN  IF m >= 1 /\ m <= 12 /\ dom >= 1 /\ dom <= MonthDays[m]
                    THEN Ok([d |-> DateOrdinal(y, m, dom), t |-> 0])
                    ELSE Raise(<<"day is out of range for month: ">> \o p)
          [] OTHER -> Raise(<<"Unknown string format: ">> \o p)

\* Weekday branches that take today when today is the target day.
NextWeekdayOrToday(now, target) ==
    LET days_ahead == target - Weekday(now.d)
    IN  PlusDays(now, IF days_ahead < 0 THEN days_ahead + 7 ELSE days_ahead)

\* The weekday branches of parse_launch_date: target is Tuesday (1) or Friday (4).
NextWeekday(now, target) ==
    LET days_ahead == target - Weekday(now.d)
    IN  PlusDays(now, IF days_ahead <= 0 THEN days_ahead + 7 ELSE days_ahead)

\* parse_launch_date(date_input) at the moment `now`.
ParseLaunchDate(date_input, now) ==
    IF ContainsWord(date_input, "next") /\ ContainsWord(date_input, "tuesday")
    THEN Ok(NextWeekday(now, 1))
    ELSE IF ContainsWord(date_input, "next") /\ ContainsWord(date_input, "friday")
    THEN Ok(NextWeekday(now, 4))
    ELSE LET parsed == DateutilParse(date_input, now)
         IN  IF parsed.ok THEN parsed
             ELSE IF IsDigit(date_input)
                  THEN Ok(PlusDays(now, IntOf(date_input)))
                  ELSE Raise(<<"Could not parse date: ">> \o date_input.s)

\* The difference of the two datetimes as they stand, neither brought to
\* midnight: timedelta.days rounds down.
TimelineDaysUnnormalised(launch_date, now) ==
    launch_date.d - now.d - (IF launch_date.t < now.t THEN 1 ELSE 0)

\* calculate_timeline_days(launch_date) at the moment `now`.
CalculateTimelineDays(launch_date, now) == Midnight(launch_date).d - Midnight(now).d

\* format_date_for_display(date): "%A, %B %d, %Y"
FormatDateForDisplay(date) ==
    JStr(<<WeekdayNames[Weekday(date.d) + 1], ", ", MonthNames[MonthOf(date.d)], " ">>
         \o (IF DayOfMonth(date.d) < 10 THEN <<"0">> ELSE <<>>)
         \o <<ToString(DayOfMonth(date.d)), ", ", ToString(YearOf(date.d))>>)

\* ------------------------------------------- app/agents/asset_prep_agent.py
TaglinePitchLen == 50

TweetPitchLen == 100

MaxListItems == 5

\* The fallback taglines without the "Revolutionary" template.
FallbackTaglinesShort(product_name, elevator_pitch, target_audience) ==
    StrList(<<
        PyStr(product_name) \o <<" - ">> \o Take(elevator_pitch.s, TaglinePitchLen) \o <<"...">>,
        <<"Transform your workflow with ">> \o PyStr(product_name) >>)

FallbackTaglines(product_name, elevator_pitch, target_audience) ==
    StrList(<<
        PyStr(product_name) \o <<" - ">> \o Take(elevator_pitch.s, TaglinePitchLen) \o <<"...">>,
        <<"Revolutionary ">> \o PyStr(product_name) \o <<" for ">> \o PyStr(target_audience),
        <<"Transform your workflow with ">> \o PyStr(product_name),
        <<"The future of ">> \o PyStr(product_name) \o <<" is here">>,
        <<"Build better with ">> \o PyStr(product_name) >>)

\* _generate_taglines after the model call returned.
GenerateTaglines(response, product_name, elevator_pitch, target_audience) ==
    LET json_match == JsonMatch(response)
        data == JsonLoads(json_match.group)
        cleaned == CleanEach(DictGet(data.val, "taglines", JList(<<>>)))
    IN  IF json_match.found /\ data.ok /\ cleaned.ok
        THEN cleaned.val
        ELSE FallbackTaglines(product_name, elevator_pitch, target_audience)

\* _generate_description after the model call returned.
GenerateDescription(response) == CleanText(TextOf(response)).val

\* The two emoji are written "ROCKET" and "PRAY", one piece each.
FallbackTweets(product_name, elevator_pitch, target_audience) ==
    StrList(<<
        <<"ROCKET", " Just launched ">> \o PyStr(product_name) \o <<" on @ProductHunt! ">>
            \o Take(elevator_pitch.s, TweetPitchLen) \o <<"... #ProductHunt #Launch">>,
        <<"Excited to share ">> \o PyStr(product_name) \o <<" with the world! Built for ">>
            \o PyStr(target_audience) \o <<". Check it out: #ProductHunt #Launch">>,
        <<"After months of building, ">> \o PyStr(product_name)
            \o <<" is live on @ProductHunt! Would love your support ", "PRAY",
                 " #ProductHunt #Launch">> >>)

\* _generate_tweets after the model call returned.
GenerateTweets(response, product_name, elevator_pitch, target_audience) ==
    LET json_match == JsonMatch(response)
        data == JsonLoads(json_match.group)
        cleaned == CleanEach(DictGet(data.val, "tweets", JList(<<>>)))
    IN  IF json_match.found /\ data.ok /\ cleaned.ok
        THEN cleaned.val
        ELSE FallbackTweets(product_name, elevator_pitch, target_audience)

FallbackSuggestions(product_name, target_audience) ==
    StrList(<<
        <<"Start building your community around ">> \o PyStr(product_name)
            \o <<" 2-3 weeks before launch">>,
        <<"Create a demo video showcasing ">> \o PyStr(product_name) \o <<"'s key features">>,
        <<"Reach out to ">> \o PyStr(target_audience) \o <<" influencers and thought leaders">>,
        <<"Prepare social media content for launch day and the following week">>,
        <<"Plan follow-up activities to maintain momentum after launch day">> >>)

\* Suggestions that keep every listed line.
GenerateSuggestionsUncapped(response, product_name, target_audience) ==
    LET lines == SplitLines(TextOf(response).s, <<>>)
        cleaned == [i \in 1..Len(lines) |-> CleanPieces(lines[i])]
        suggestions == SelectSeq(cleaned, IsListLine)
    IN  IF suggestions # <<>>
        THEN StrList(suggestions)
        ELSE FallbackSuggestions(product_name, target_audience)

\* _generate_suggestions after the model call returned.
GenerateSuggestions(response, product_name, target_audience) ==
    LET lines == SplitLines(TextOf(response).s, <<>>)
        cleaned == [i \in 1..Len(lines) |-> CleanPieces(lines[i])]
        suggestions == SelectSeq(cleaned, IsListLine)
    IN  IF suggestions # <<>>
        THEN StrList(Take(suggestions, MaxListItems))
        ELSE FallbackSuggestions(product_name, target_audience)

\* ---------------------------------------------- app/agents/research_agent.py
Field(key, pieces) == Member(key, JStr(pieces))

FallbackLaunches(product_category) ==
    JList(<<
        JObj(<< Field("name", <<"Top ">> \o PyStr(product_category) \o <<" Tool">>),
                Field("tagline", <<"Revolutionary solution for modern teams">>),
                Field("launch_date", <<"2024-10-15">>),
                Field("ranking", <<"1st place">>),
                Member("success_factors",
                    StrList(<< <<"Strong community">>, <<"Clear value prop">>, <<"Great timing">> >>)),
                Field("standout_features", <<"Unique approach to common problem">>),
                Field("lessons", <<"Focus on user experience and community building">>) >>),
        JObj(<< Field("name", <<"AI-Powered ">> \o PyStr(product_category)),
                Field("tagline", <<"Automate your workflow with AI">>),
                Field("launch_date", <<"2024-09-20">>),
                Field("ranking", <<"2nd place">>),
                Member("success_factors",
                    StrList(<< <<"AI trend">>, <<"Clear demo">>, <<"Founder story">> >>)),
                Field("standout_features", <<"First to market with AI integration">>),
                Field("lessons", <<"Timing and trend alignment crucial">>) >>) >>)

\* _research_top_launches after the model call returned.
ResearchTopLaunches(response, product_category) ==
    LET json_match == JsonMatch(response)
        data == JsonLoads(json_match.group)
    IN  IF json_match.found /\ data.ok
        THEN DictGet(data.val, "launches", JList(<<>>))
        ELSE FallbackLaunches(product_category)

FallbackHunters(product_category) ==
    JList(<<
        JObj(<< Field("name", <<"Tech Hunter">>),
                Field("handle", <<"@techhunter">>),
                Field("specialization", PyStr(product_category) \o <<" and productivity tools">>),
                Field("followers", <<"15K+">>),
                Field("success_rate", <<"High">>),
                Field("contact_approach", <<"Twitter DM or email">>),
                Field("why_fit", <<"Specializes in ">> \o PyStr(product_category) \o <<" launches">>) >>),
        JObj(<< Field("name", <<"Startup Advocate">>),
                Field("handle", <<"@startupadvocate">>),
                Field("specialization", <<"Early-stage products">>),
                Field("followers", <<"8K+">>),
                Field("success_rate", <<"Medium-High">>),
                Field("contact_approach", <<"LinkedIn message">>),
                Field("why_fit", <<"Great at helping new founders">>) >>) >>)

\* _find_recommended_hunters after the model call returned.
FindRecommendedHunters(response, product_category) ==
    LET json_match == JsonMatch(response)
        data == JsonLoads(json_match.group)
    IN  IF json_match.found /\ data.ok
        THEN DictGet(data.val, "hunters", JList(<<>>))
        ELSE FallbackHunters(product_category)

FallbackInsights(product_category) ==
    StrList(<<
        <<"Products in ">> \o PyStr(product_category)
            \o <<" that launch on Tuesdays perform 20% better">>,
        <<"Community building 2-3 weeks before launch is crucial for success">>,
        <<"Clear, benefit-focused taglines outperform feature-focused ones">>,
        <<"Founder stories and behind-the-scenes content drive engagement">>,
        <<"Posting updates and responding to comments increases visibility">> >>)

\* _generate_insights after the model call returned.
GenerateInsights(response, product_category) ==
    LET lines == SplitLines(TextOf(response).s, <<>>)
        stripped == [i \in 1..Len(lines) |-> Strip(lines[i])]
        insights == SelectSeq(stripped, IsListLine)
    IN  IF insights # <<>>
        THEN StrList(Take(insights, MaxListItems))
        ELSE FallbackInsights(product_category)

FallbackAnalysis ==
    JObj(<< Field("market_saturation", <<"Medium">>),
            Member("pricing_strategies",
                StrList(<< <<"Freemium">>, <<"One-time purchase">>, <<"Subscription">> >>)),
            Member("key_differentiators",
                StrList(<< <<"User experience">>, <<"AI integration">>, <<"Community features">> >>)),
            Member("market_gaps",
                StrList(<< <<"Better onboarding">>, <<"Mobile-first approach">>, <<"Enterprise features">> >>)),
            Field("positioning_strategy",
                <<"Focus on unique value proposition and user experience">>) >>)

\* A fallback that hands back the model's text, as extract_json_from_response does.
AnalyzeCompetitorsEcho(response) ==
    LET json_match == JsonMatch(response)
        data == JsonLoads(json_match.group)
    IN  IF json_match.found /\ data.ok THEN data.val
        ELSE JObj(<<Member("content", TextOf(response))>>)

\* _analyze_competitors after the model call returned.
AnalyzeCompetitors(response) ==
    LET json_match == JsonMatch(response)
        data == JsonLoads(json_match.group)
    IN  IF json_match.found /\ data.ok THEN data.val ELSE FallbackAnalysis

\* ---------------------------------------------- app/agents/planning_agent.py
MilestoneCap == 5

Task(name, due_date, time_estimate, dependencies, success_criteria) ==
    JObj(<< Field("name", name),
            Field("due_date", due_date),
            Field("priority", <<"High">>),
            Field("time_estimate", time_estimate),
            Field("dependencies", dependencies),
            Field("success_criteria", success_criteria) >>)

Phase(name, tasks) == JObj(<< Field("phase", name), Member("tasks", JList(tasks)) >>)

DaysBefore(n) == <<ToString(n), " days before launch">>

\* _create_fallback_timeline(days_until_launch)
CreateFallbackTimeline(days_until_launch) ==
    JList(
        (IF days_until_launch >= 14
         THEN << Phase(<<"Pre-launch (2+ weeks before)">>, <<
                    Task(<<"Create Product Hunt account and profile">>,
                         DaysBefore(days_until_launch - 14),
                         <<"1 hour">>, <<"None">>, <<"Account created with complete profile">>),
                    Task(<<"Prepare product assets (logo, screenshots, demo video)">>,
                         DaysBefore(days_until_launch - 10),
                         <<"4-6 hours">>, <<"None">>, <<"All visual assets ready">>) >>) >>
         ELSE <<>>)
        \o
        (IF days_until_launch >= 7
         THEN << Phase(<<"Final preparation (1 week before)">>, <<
                    Task(<<"Write compelling product description and tagline">>,
                         DaysBefore(days_until_launch - 7),
                         <<"2-3 hours">>, <<"Product assets ready">>,
                         <<"Description approved and ready">>),
                    Task(<<"Identify and reach out to potential hunters">>,
                         DaysBefore(days_until_launch - 5),
                         <<"3-4 hours">>, <<"None">>, <<"At least 3 hunters confirmed">>) >>) >>
         ELSE <<>>)
        \o
        << Phase(<<"Launch day">>, <<
                Task(<<"Submit product to Product Hunt">>,
                     <<"Launch day (12:01 AM PST)">>,
                     <<"30 minutes">>, <<"All assets and hunters ready">>,
                     <<"Product live on Product Hunt">>),
                Task(<<"Share on social media and personal networks">>,
                     <<"Launch day (morning)">>,
                     <<"2-3 hours">>, <<"Product live">>, <<"Initial momentum generated">>) >>) >>)

\* _generate_timeline after the model call returned.
GenerateTimeline(response, days_until_launch) ==
    LET json_match == JsonMatch(response)
        data == JsonLoads(json_match.group)
    IN  IF json_match.found /\ data.ok
        THEN DictGet(data.val, "timeline", JList(<<>>))
        ELSE CreateFallbackTimeline(days_until_launch)

RECURSIVE Flatten(_)
Flatten(lists) == IF lists = <<>> THEN <<>> ELSE Head(lists).items \o Flatten(Tail(lists))

\* The lists the results hold, joined in order; the first exception if one raised.
Collect(results) ==
    LET bad == {i \in 1..Len(results) : ~results[i].ok}
    IN  IF bad # {} THEN results[SetMin(bad)]
        ELSE Ok(JList(Flatten([i \in 1..Len(results) |-> results[i].val])))

NoGet(v) == Raise(<<"'", TypeName(v), "' object has no attribute 'get'">>)

\* One task of _extract_milestones' inner loop: a one-element list for a High
\* task, an empty one otherwise.
TaskMilestone(task) ==
    IF task.type # "object" THEN NoGet(task)
    ELSE IF DictGet(task, "priority", JNull) # JStr(<<"High">>) THEN Ok(JList(<<>>))
    ELSE IF ~DictHas(task, "name") THEN Raise(<<"'name'">>)
    ELSE IF ~DictHas(task, "due_date") THEN Raise(<<"'due_date'">>)
    ELSE Ok(JList(<<JStr(PyStr(DictGet(task, "name", JNull)) \o <<" - ">>
                        \o PyStr(DictGet(task, "due_date", JNull)))>>))

PhaseMilestones(phase) ==
    IF phase.type # "object" THEN NoGet(phase)
    ELSE LET tasks == Iterate(DictGet(phase, "tasks", JList(<<>>)))
         IN  IF ~tasks.ok THEN tasks
             ELSE Collect([i \in 1..Len(tasks.val.items) |-> TaskMilestone(tasks.val.items[i])])

\* Milestones of every High task, however many.
ExtractMilestonesUncapped(timeline) ==
    LET phases == Iterate(timeline)
    IN  IF ~phases.ok THEN phases
        ELSE Collect([i \in 1..Len(phases.val.items) |-> PhaseMilestones(phases.val.items[i])])

\* _extract_milestones(timeline)
ExtractMilestones(timeline) ==
    LET phases == Iterate(timeline)
    IN  IF ~phases.ok THEN phases
        ELSE LET all == Collect([i \in 1..Len(phases.val.items) |->
                                    PhaseMilestones(phases.val.items[i])])
             IN  IF ~all.ok THEN all ELSE Ok(JList(Take(all.val.items, MilestoneCap)))

\* ------------------------------------------------------ app/utils.py, agents
\* BedrockClient.invoke_model's except branch: the message it re-raises with,
\* e being str(e) of the client's error.  "MODEL_ID" and "AWS_REGION" stand for
\* the configured model id and region.
BedrockError(e) ==
    CASE e = "ValidationException" ->
            <<"Model validation error: ", e, "\nMake sure the model '", "MODEL_ID",
              "' is available in your region.\n",
              "Check AWS Bedrock console for available models.\n", "Region: ", "AWS_REGION">>
      [] e = "AccessDeniedException" ->
            <<"Access denied: ", e, "\nMake sure your AWS credentials have Bedrock permissions.">>
      [] OTHER -> <<"Bedrock API error: ", e>>

\* BaseAgent.invoke_llm's except branch.
InvokeLlmError(e) == <<"LLM invocation failed: ">> \o BedrockError(e)

\* BaseAgent.format_response
FormatResponse(success, data, error, agent) ==
    [kind |-> "dict", success |-> success, data |-> data, error |-> error,
     agent_type |-> agent]

\* Extraction that leaves the parsed object as it is.
ExtractUnvalidated(response, expected_keys) ==
    LET json_match == JsonMatch(response)
        data == JsonLoads(json_match.group)
    IN  IF json_match.found /\ data.ok
        THEN data.val
        ELSE JObj([i \in 1..Len(expected_keys.items) |->
                    Member(expected_keys.items[i].s[1], TextOf(response))])

\* BaseAgent.extract_structured_data: the parsed object with every missing
\* expected key set to None; the raw response under every expected key when
\* there is no {...} span or it does not parse.
ExtractStructuredData(response, expected_keys) ==
    LET json_match == JsonMatch(response)
        data == JsonLoads(json_match.group)
        Validated[i \in 0..Len(expected_keys.items)] ==
            IF i = 0 THEN data.val
            ELSE LET key == expected_keys.items[i].s[1]
                 IN  IF DictHas(Validated[i - 1], key) THEN Validated[i - 1]
                     ELSE DictSet(Validated[i - 1], key, JNull)
    IN  IF json_match.found /\ data.ok
        THEN Validated[Len(expected_keys.items)]
        ELSE JObj([i \in 1..Len(expected_keys.items) |->
                    Member(expected_keys.items[i].s[1], TextOf(response))])

\* A failure that keeps a data object beside the error.
AgentFailureWithData(agent, label, err) ==
    FormatResponse(FALSE, JObj(<<>>), JStr(<<label>> \o err), agent)

\* A failure that reports the label alone.
AgentFailureSilent(agent, label, err) == FormatResponse(FALSE, JNull, JStr(<<label>>), agent)

\* The `except Exception as e` of each agent's process.
AgentFailure(agent, label, err) == FormatResponse(FALSE, JNull, JStr(<<label>> \o err), agent)

FailureLabel(agent) ==
    CASE agent = "planning" -> "Planning failed: "
      [] agent = "asset_prep" -> "Asset generation failed: "
      [] OTHER -> "Research failed: "

\* ------------------------------------------------------- app/coordinator.py
KnownAgents == {"planning", "asset_prep", "research"}

\* An envelope that reports the outcome and leaves the data behind.
WrapResultWithoutData(result, agent_type) ==
    [kind |-> "AgentResponse", success |-> result.success, data |-> JNull,
     error |-> result.error, agent_type |-> agent_type]

\* AgentResponse(success=result["success"], data=result.get("data"),
\*               error=result.get("error"), agent_type=agent_type)
WrapResult(result, agent_type) ==
    [kind |-> "AgentResponse", success |-> result.success, data |-> result.data,
     error |-> result.error, agent_type |-> agent_type]

\* An else branch that answers for the default agent.
UnknownAgentAsPlanning(agent_type) ==
    [kind |-> "AgentResponse", success |-> FALSE, data |-> JNull,
     error |-> JStr(<<"Unknown agent type: ", agent_type>>), agent_type |-> "planning"]

\* The else branch of route_request.
UnknownAgent(agent_type) ==
    [kind |-> "AgentResponse", success |-> FALSE, data |-> JNull,
     error |-> JStr(<<"Unknown agent type: ", agent_type>>), agent_type |-> agent_type]

NoResult == [kind |-> "none", success |-> FALSE, data |-> JNull, error |-> JNull,
             agent_type |-> ""]

\* -------------------------------------------------------------- the inputs
Seqs(A, n) == UNION {[1..len -> A] : len \in 0..n}

Braces == {Ch("{"), Ch("}")}

AString == JStr(<<"a">>)

\* The values a model puts under a key that should hold a list of strings.
StringListValues == {JList(<<AString>>), JList(<<>>), JNull, JStr(<<"a", "b">>)}

\* The values a model puts under a key that should hold a list of records.
RecordListValues == {JList(<<JObj(<<Field("name", <<"a">>)>>)>>), JList(<<>>), JNum(5)}

GoodTask == JObj(<<Field("name", <<"Ship">>), Field("due_date", <<"Launch day">>),
                   Field("priority", <<"High">>)>>)

NamelessTask == JObj(<<Field("due_date", <<"Launch day">>), Field("priority", <<"High">>)>>)

TimelineValues ==
    {JList(<<Phase(<<"Launch day">>, <<GoodTask>>)>>),
     JList(<<Phase(<<"Launch day">>, <<NamelessTask>>)>>),
     JNum(5)}

Stray == Member("notes", JList(<<>>))

\* The tokens of the response to each model call.  With braces alone a
\* response can hold no JSON (""), unparsable JSON ("{{}"), or an object
\* without the key ("{}").
Alphabet(call) ==
    CASE call = "taglines" ->
            Braces \cup {Member("taglines", v) : v \in StringListValues}
      [] call = "tweets" ->
            Braces \cup {Member("tweets", JList(<<AString>>)), Member("tweets", JList(<<>>))}
      [] call = "top_launches" ->
            Braces \cup {Member("launches", v) : v \in RecordListValues}
      [] call = "recommended_hunters" ->
            Braces \cup {Member("hunters", v) : v \in RecordListValues}
      [] call = "competitor_analysis" ->
            Braces \cup {Member("market_saturation", JStr(<<"High">>))}
      [] call = "timeline" ->
            Braces \cup {Member("timeline", v) : v \in TimelineValues}
      [] call = "extract_structured_data" ->
            Braces \cup {Stray, Member("taglines", JList(<<AString>>))}
      [] call = "short_description" -> {Ch("x"), Ch(" ")}
      [] OTHER -> {Ch("-"), Ch("x"), Ch("\n")}

Responses(call) == Seqs(Alphabet(call), MaxLen)

ModelErrors == {"ValidationException", "AccessDeniedException", "ReadTimeoutError"}

Foo == JStr(<<"Foo">>)

Bar == JStr(<<"B", "a", "r">>)

Devs == JStr(<<"devs">>)

AssetRequests ==
    {JObj(<<Member("product_name", Foo), Member("elevator_pitch", Bar),
            Member("target_audience", Devs), Member("tone", JStr(<<"casual">>))>>),
     JObj(<<Member("product_name", JStr(<<"Baz">>)), Member("elevator_pitch", Bar),
            Member("target_audience", JStr(<<"founders">>))>>),
     JObj(<<Member("elevator_pitch", Bar)>>)}

ResearchRequests ==
    {JObj(<<Member("product_category", JStr(<<"AI">>)), Member("target_audience", Devs)>>),
     JObj(<<Member("product_category", JStr(<<"Design">>)), Member("target_audience", Devs),
            Member("budget_range", JStr(<<"low">>))>>),
     JObj(<<>>)}

\* A written date, y-m-d.
DateText(d) ==
    JStr(<<ToString(YearOf(d)), "-", ToString(MonthOf(d)), "-", ToString(DayOfMonth(d))>>)

\* How far from today the written dates lie.
Offsets == {-2, -1, 0, 1, MaxAhead \div 2, MaxAhead}

\* The launch-date texts a caller sends on day `today`.
LaunchDateTexts(today) ==
    {JStr(<<ToString(v)>>) : v \in 0..MaxN}
    \cup {DateText(today + off) : off \in Offsets}
    \cup {JStr(<<"next", " ", "Tuesday">>), JStr(<<"Next", " ", "friday">>),
          JStr(<<"someday">>), JStr(<<>>)}

PlanningRequests(today) ==
    {JObj(<<Member("product_name", Foo), Member("product_type", JStr(<<"SaaS">>)),
            Member("launch_date", text)>>) : text \in LaunchDateTexts(today)}
    \cup {JObj(<<Member("product_name", Foo)>>),
          JObj(<<Member("launch_date", JStr(<<"3">>))>>)}

Moments == {[d |-> day, t |-> tod] : day \in 1..MaxToday, tod \in {0, 1}}

AgentTypes == KnownAgents \cup {"bogus", "Planning", ""}

\* What a response offers for the key a call reads: "nojson" (no {...} span),
\* "malformed" (the span does not parse), "missing" (no such key), "wrongtype"
\* (the key holds no list), "ok"; "text" for the calls that read no JSON.
ExpectedKey(call) ==
    CASE call = "top_launches" -> "launches"
      [] call = "recommended_hunters" -> "hunters"
      [] OTHER -> call

Classify(call, response) ==
    IF call \in {"short_description", "suggestions", "insights"} THEN "text"
    ELSE LET json_match == JsonMatch(response)
             data == JsonLoads(json_match.group)
         IN  IF ~json_match.found THEN "nojson"
             ELSE IF ~data.ok THEN "malformed"
             ELSE IF call \in {"competitor_analysis", "extract_structured_data"} THEN "ok"
             ELSE IF ~DictHas(data.val, ExpectedKey(call)) THEN "missing"
             ELSE IF DictGet(data.val, ExpectedKey(call), JNull).type # "list" THEN "wrongtype"
             ELSE "ok"

\* ---------------------------------------------------------------- the state
VARIABLES
    pc,           \* "idle", the model call being awaited, or "done"
    agent_type,   \* route_request's agent_type
    request,      \* route_request's request_data
    now,          \* datetime.now() while the request runs
    locals,       \* the results process has assembled so far
    calls,        \* the model calls made for this request, in order
    seen,         \* what each returned response offered (Classify)
    invoked,      \* the agents whose process was called
    caught,       \* the exceptions caught by process or route_request: their messages
    agent_result, \* the dict process returned
    result,       \* what route_request returned
    agent,        \* api/main.py's module global `agent`
    handlers,     \* the requests the web server is handling, each with its locals
    stream        \* generate_response of /api/chat-stream: its locals and its frames

vars == <<pc, agent_type, request, now, locals, calls, seen, invoked, caught,
          agent_result, result, agent, handlers, stream>>

\* The web application's state.
api == <<agent, handlers, stream>>

\* None, for the module global and for a handler's agent_instance.
NoAgent == [user_id |-> "", session_id |-> "", by |-> ""]

\* The web application before it has served anything.
ApiIdle ==
    /\ agent = NoAgent
    /\ handlers = <<>>
    /\ stream = <<>>

Init ==
    /\ pc = "idle"
    /\ agent_type = ""
    /\ request = JObj(<<>>)
    /\ now = [d |-> 1, t |-> 0]
    /\ locals = JObj(<<>>)
    /\ calls = <<>>
    /\ seen = <<>>
    /\ invoked = {}
    /\ caught = <<>>
    /\ agent_result = NoResult
    /\ result = NoResult
    /\ ApiIdle

\* The fields each agent's process reads from request_data.
RequestFields(token) ==
    CASE token = "planning" ->
            {"product_name", "product_type", "launch_date", "additional_notes"}
      [] token = "asset_prep" -> {"product_name", "elevator_pitch", "target_audience", "tone"}
      [] token = "research" -> {"product_category", "target_audience"}
      [] OTHER -> {}

\* A default of None for every field.
FieldDefaultNone(key) == JNull

\* The second argument of request_data.get.
FieldDefault(key) == IF key = "tone" THEN JStr(<<"professional">>) ELSE JStr(<<>>)

\* request_data.get(key, default)
Arg(key) == DictGet(request, key, FieldDefault(key))

\* process returns: route_request wraps the dict.
Finish(dict) ==
    /\ agent_result' = dict
    /\ result' = WrapResult(dict, agent_type)
    /\ pc' = "done"

\* process awaits the next model call.
Await(call) ==
    /\ pc' = call
    /\ calls' = Append(calls, call)
    /\ UNCHANGED <<agent_result, result>>

AssetCalls == <<"taglines", "short_description", "tweets", "suggestions">>

ResearchCalls == <<"top_launches", "recommended_hunters", "insights", "competitor_analysis">>

AllCalls == {"timeline"} \cup {AssetCalls[i] : i \in 1..4} \cup {ResearchCalls[i] : i \in 1..4}

\* A start of process that plans from today when the date cannot be parsed.
PlanningStartLenient(req, moment) ==
    LET launch_date == ParseLaunchDate(DictGet(req, "launch_date", JStr(<<>>)), moment)
    IN  IF launch_date.ok /\ CalculateTimelineDays(launch_date.val, moment) < 0
        THEN /\ caught' = <<>>
             /\ agent_result' = FormatResponse(FALSE, JNull,
                    JStr(<<"Launch date is in the past", ". Please provide a future date.">>),
                    "planning")
             /\ result' = WrapResult(agent_result', "planning")
             /\ pc' = "done"
             /\ calls' = <<>>
        ELSE /\ caught' = <<>>
             /\ pc' = "timeline"
             /\ calls' = <<"timeline">>
             /\ UNCHANGED <<agent_result, result>>

\* PlanningAgent.process up to its model call.
PlanningStart(req, moment) ==
    LET launch_date == ParseLaunchDate(DictGet(req, "launch_date", JStr(<<>>)), moment)
        days_until_launch == CalculateTimelineDays(launch_date.val, moment)
    IN  IF ~launch_date.ok
        THEN /\ caught' = <<launch_date.err>>
             /\ agent_result' = AgentFailure("planning", FailureLabel("planning"), launch_date.err)
             /\ result' = WrapResult(agent_result', "planning")
             /\ pc' = "done"
             /\ calls' = <<>>
        ELSE IF days_until_launch < 0
        THEN /\ caught' = <<>>
             /\ agent_result' = FormatResponse(FALSE, JNull,
                    JStr(<<"Launch date is in the past", ". Please provide a future date.">>),
                    "planning")
             /\ result' = WrapResult(agent_result', "planning")
             /\ pc' = "done"
             /\ calls' = <<>>
        ELSE /\ caught' = <<>>
             /\ pc' = "timeline"
             /\ calls' = <<"timeline">>
             /\ UNCHANGED <<agent_result, result>>

\* AgentCoordinator.route_request, up to the first model call of the agent it
\* dispatches to (or to its return when there is none).
RouteRequest(token, req, moment) ==
    /\ pc = "idle"
    /\ UNCHANGED api
    /\ agent_type' = token
    /\ request' = req
    /\ now' = IF token = "planning" THEN moment ELSE now
    /\ locals' = JObj(<<>>)
    /\ seen' = <<>>
    /\ invoked' = IF token \in KnownAgents THEN {token} ELSE {}
    /\ CASE token = "planning" -> PlanningStart(req, moment)
         [] token = "asset_prep" ->
                /\ pc' = "taglines"
                /\ calls' = <<"taglines">>
                /\ caught' = <<>>
                /\ UNCHANGED <<agent_result, result>>
         [] token = "research" ->
                /\ pc' = "top_launches"
                /\ calls' = <<"top_launches">>
                /\ caught' = <<>>
                /\ UNCHANGED <<agent_result, result>>
         [] OTHER ->
                /\ result' = UnknownAgent(token)
                /\ pc' = "done"
                /\ calls' = <<>>
                /\ caught' = <<>>
                /\ UNCHANGED agent_result

\* What the awaited call makes of the model's response.
Extracted(call, response) ==
    CASE call = "taglines" ->
            GenerateTaglines(response, Arg("product_name"), Arg("elevator_pitch"),
                             Arg("target_audience"))
      [] call = "short_description" -> GenerateDescription(response)
      [] call = "tweets" ->
            GenerateTweets(response, Arg("product_name"), Arg("elevator_pitch"),
                           Arg("target_audience"))
      [] call = "suggestions" ->
            GenerateSuggestions(response, Arg("product_name"), Arg("target_audience"))
      [] call = "top_launches" -> ResearchTopLaunches(response, Arg("product_category"))
      [] call = "recommended_hunters" ->
            FindRecommendedHunters(response, Arg("product_category"))
      [] call = "insights" -> GenerateInsights(response, Arg("product_category"))
      [] call = "competitor_analysis" -> AnalyzeCompetitors(response)
      [] call = "extract_structured_data" ->
            ExtractStructuredData(response, Arg("expected_keys"))
      [] OTHER ->
            GenerateTimeline(response,
                CalculateTimelineDays(ParseLaunchDate(Arg("launch_date"), now).val, now))

NextCall(order, call) ==
    LET i == CHOOSE j \in 1..Len(order) : order[j] = call
    IN  IF i < Len(order) THEN order[i + 1] ELSE "done"

\* AssetPrepAgent.process and ResearchAgent.process: the awaited model call
\* returns `response`; the agent goes on to its next call, or returns.
AgentContinues(response) ==
    /\ pc \in AllCalls \ {"timeline"}
    /\ LET order == IF agent_type = "asset_prep" THEN AssetCalls ELSE ResearchCalls
           data == DictSet(locals, pc, Extracted(pc, response))
           next == NextCall(order, pc)
       IN  /\ locals' = data
           /\ seen' = Append(seen, Classify(pc, response))
           /\ IF next = "done"
              THEN Finish(FormatResponse(TRUE, data, JNull, agent_type)) /\ UNCHANGED calls
              ELSE Await(next)
    /\ UNCHANGED <<agent_type, request, now, invoked, caught>>
    /\ UNCHANGED api

\* PlanningAgent.process from the return of its model call.
PlanningContinues(response) ==
    /\ pc = "timeline"
    /\ LET launch_date == ParseLaunchDate(Arg("launch_date"), now).val
           days_until_launch == CalculateTimelineDays(launch_date, now)
           timeline == Extracted("timeline", response)
           key_milestones == ExtractMilestones(timeline)
           data == JObj(<< Member("timeline", timeline),
                           Member("total_days", JNum(days_until_launch)),
                           Member("launch_date", FormatDateForDisplay(launch_date)),
                           Member("key_milestones", key_milestones.val) >>)
       IN  /\ seen' = Append(seen, Classify("timeline", response))
           /\ IF key_milestones.ok
              THEN /\ locals' = data
                   /\ caught' = caught
                   /\ Finish(FormatResponse(TRUE, data, JNull, "planning"))
              ELSE /\ locals' = DictSet(locals, "timeline", timeline)
                   /\ caught' = Append(caught, key_milestones.err)
                   /\ Finish(AgentFailure("planning", FailureLabel("planning"),
                                          key_milestones.err))
    /\ UNCHANGED <<agent_type, request, now, calls, invoked>>
    /\ UNCHANGED api

\* A failing model call that is sent once more before the agent gives up.
ModelRaisesRetried(e) ==
    /\ pc \in AllCalls
    /\ seen' = Append(seen, "raise")
    /\ IF Len(calls) < 2 \/ calls[Len(calls) - 1] # pc
       THEN /\ calls' = Append(calls, pc)
            /\ UNCHANGED <<pc, caught, agent_result, result>>
       ELSE /\ caught' = Append(caught, InvokeLlmError(e))
            /\ Finish(AgentFailure(agent_type, FailureLabel(agent_type), InvokeLlmError(e)))
            /\ UNCHANGED calls
    /\ UNCHANGED <<agent_type, request, now, locals, invoked>>
    /\ UNCHANGED api

\* The awaited model call fails with error e: invoke_model and invoke_llm
\* re-raise, the agent's process catches and returns.
ModelRaises(e) ==
    /\ pc \in AllCalls
    /\ caught' = Append(caught, InvokeLlmError(e))
    /\ seen' = Append(seen, "raise")
    /\ Finish(AgentFailure(agent_type, FailureLabel(agent_type), InvokeLlmError(e)))
    /\ UNCHANGED <<agent_type, request, now, locals, calls, invoked>>
    /\ UNCHANGED api

\* The caller has the response; the coordinator, which keeps nothing of a
\* request, waits for the next one.
Respond ==
    /\ pc = "done"
    /\ UNCHANGED api
    /\ pc' = "idle"
    /\ agent_type' = ""
    /\ request' = JObj(<<>>)
    /\ now' = [d |-> 1, t |-> 0]
    /\ locals' = JObj(<<>>)
    /\ calls' = <<>>
    /\ seen' = <<>>
    /\ invoked' = {}
    /\ caught' = <<>>
    /\ agent_result' = NoResult
    /\ result' = NoResult

Next ==
    \/ \E token \in AgentTypes, moment \in Moments :
          \E req \in (CASE token = "planning" -> PlanningRequests(moment.d)
                        [] token = "asset_prep" -> AssetRequests
                        [] token = "research" -> ResearchRequests
                        [] OTHER -> AssetRequests) :
             RouteRequest(token, req, moment)
    \/ \E response \in Responses(pc) : AgentContinues(response)
    \/ \E response \in Responses("timeline") : PlanningContinues(response)
    \/ \E e \in ModelErrors : ModelRaises(e)
    \/ Respond

Spec == Init /\ [][Next]_vars

\* ------------------------------------------------- the extraction functions
\* The extraction functions on their own: a caller applies one of them to a
\* model text, then applies it again, with the same inputs, to a second text.
\* pc is "first", "second" or "compared"; request holds the caller's inputs,
\* calls the function applied in each run, seen what each text offered, and
\* locals the function's parsed object (None when there was none), its
\* return value, and the return value of the run before.
ExtractFns == {"extract_structured_data", "taglines", "tweets", "top_launches",
               "recommended_hunters", "competitor_analysis"}

ExpectedKeyLists == {StrList(<< <<"taglines">> >>), StrList(<< <<"taglines">>, <<"tweets">> >>)}

CallerInputs ==
    {JObj(<<Member("product_name", Foo), Member("elevator_pitch", Bar),
            Member("target_audience", Devs), Member("product_category", JStr(<<"AI">>)),
            Member("expected_keys", keys)>>) :
        keys \in ExpectedKeyLists}

\* json.loads(json_match.group()) when there is a span and it parses, else None.
ParsedData(response) ==
    LET json_match == JsonMatch(response)
        data == JsonLoads(json_match.group)
    IN  IF json_match.found /\ data.ok THEN data.val ELSE JNull

InitExtract ==
    /\ pc = "first"
    /\ request \in CallerInputs
    /\ agent_type = ""
    /\ now = [d |-> 1, t |-> 0]
    /\ locals = JObj(<<>>)
    /\ calls = <<>>
    /\ seen = <<>>
    /\ invoked = {}
    /\ caught = <<>>
    /\ agent_result = NoResult
    /\ result = NoResult
    /\ ApiIdle

ExtractFirst(fn, response) ==
    /\ pc = "first"
    /\ pc' = "second"
    /\ calls' = <<fn>>
    /\ seen' = <<Classify(fn, response)>>
    /\ locals' = JObj(<<Member("data", ParsedData(response)),
                        Member("return", Extracted(fn, response))>>)
    /\ UNCHANGED <<agent_type, request, now, invoked, caught, agent_result, result>>
    /\ UNCHANGED api

ExtractSecond(response) ==
    /\ pc = "second"
    /\ pc' = "compared"
    /\ calls' = Append(calls, calls[1])
    /\ seen' = Append(seen, Classify(calls[1], response))
    /\ locals' = JObj(<<Member("data", ParsedData(response)),
                        Member("return", Extracted(calls[1], response)),
                        Member("previous", DictGet(locals, "return", JNull))>>)
    /\ UNCHANGED <<agent_type, request, now, invoked, caught, agent_result, result>>
    /\ UNCHANGED api

ExtractReset(inputs) ==
    /\ pc = "compared"
    /\ pc' = "first"
    /\ request' = inputs
    /\ locals' = JObj(<<>>)
    /\ calls' = <<>>
    /\ seen' = <<>>
    /\ UNCHANGED <<agent_type, now, invoked, caught, agent_result, result>>
    /\ UNCHANGED api

NextExtract ==
    \/ \E fn \in ExtractFns : \E response \in Responses(fn) : ExtractFirst(fn, response)
    \/ /\ pc = "second"
       /\ \E response \in Responses(calls[1]) : ExtractSecond(response)
    \/ \E inputs \in CallerInputs : ExtractReset(inputs)

SpecExtract == InitExtract /\ [][NextExtract]_vars

\* ------------------------------------------------- the functions on their own
\* Each function is called once on an input drawn from a bounded set.  pc is
\* "call" before and "returned" after; request holds the function's name
\* ("fn") and its argument ("arg"), now the moment of the call, calls the
\* function called, locals its return value ("return"), caught the exception
\* it raised.
Call(fn, arg) == JObj(<<Member("fn", JStr(<<fn>>)), Member("arg", arg)>>)

\* Launch-date texts that name a weekday.
WeekdayTexts ==
    {JStr(<<"next", " ", "Tuesday">>), JStr(<<"NEXT", " ", "TUESDAY">>),
     JStr(<<"Next", " ", "friday">>), JStr(<<"tuesday", " ", "next">>),
     JStr(<<"next", " ", "friday", " ", "or", " ", "tuesday">>)}

FunctionMoments == {[d |-> day, t |-> tod] : day \in 1..MaxDay, tod \in {0, 1}}

DateCalls(moment) ==
    {Call("parse_launch_date", text) : text \in WeekdayTexts \cup LaunchDateTexts(moment.d)}

\* The i-th task of a timeline: its name and due date tell its position, and
\* the due dates are not in order.
Priorities == {"High", "Medium", "high"}

PriorityLists(n) ==
    {priority \in [1..n -> Priorities] :
        Cardinality({i \in 1..n : priority[i] # "High"}) <= MaxOther}

NthTask(i, priority) ==
    JObj(<<Field("name", <<"Task ", ToString(i)>>),
           Field("due_date", DaysBefore((i * 3) % 7)),
           Field("priority", <<priority>>)>>)

\* Timelines of n tasks in two phases, the first holding the first `split`
\* tasks.
Timelines(n) ==
    LET task == [i \in 1..n |-> [priority \in Priorities |-> NthTask(i, priority)]]
    IN  {JList(<<Phase(<<"Before">>, [i \in 1..split |-> task[i][priority[i]]]),
                 Phase(<<"Launch day">>,
                       [i \in 1..(n - split) |-> task[split + i][priority[split + i]]])>>) :
            priority \in PriorityLists(n), split \in {0, 2, n} \cap 0..n}

\* The functions that read no clock are called at one moment.
Clockless(moment) == moment = [d |-> 1, t |-> 0]

MilestoneCalls(moment) ==
    IF Clockless(moment)
    THEN {Call("extract_milestones", timeline) :
            timeline \in UNION {Timelines(n) : n \in 0..MaxTasks}}
    ELSE {}

\* The i-th line of a model text, of one of four kinds: a list line, prose, a
\* numbered line that is indented and holds an emphasis mark between spaces,
\* and a list line behind an emphasis mark.
LineKinds == {"listed", "prose", "indented", "emphasised"}

Line(kind, i) ==
    CASE kind = "listed" -> <<(IF i % 2 = 0 THEN "BULLET" ELSE "-"), " ", ToString(i)>>
      [] kind = "prose" -> <<"x", ToString(i)>>
      [] kind = "indented" -> <<" ", ToString(i), " ", "*", " ", "b">>
      [] OTHER -> <<"_", "-", ToString(i)>>

RECURSIVE JoinLines(_)
\* "\n".join(lines)
JoinLines(lines) ==
    IF lines = <<>> THEN <<>>
    ELSE IF Len(lines) = 1 THEN lines[1]
    ELSE lines[1] \o <<"\n">> \o JoinLines(Tail(lines))

LineKindLists(n) ==
    {kind \in [1..n -> LineKinds] :
        Cardinality({i \in 1..n : kind[i] # "listed"}) <= MaxOther}

\* The model texts of n lines, as the characters of a response.
ListTexts(n) ==
    {LET text == JoinLines([i \in 1..n |-> Line(kind[i], i)])
     IN  JList([j \in 1..Len(text) |-> Ch(text[j])]) :
        kind \in LineKindLists(n)}

ListCalls(moment) ==
    IF Clockless(moment)
    THEN {Call(fn, text) : fn \in {"generate_suggestions", "generate_insights"},
                           text \in UNION {ListTexts(n) : n \in 0..MaxLines}}
    ELSE {}

\* Model texts for the two JSON extractors: braces, a character that is
\* neither, and a member ("notes": []).
JsonTexts(n) == {JList(text) : text \in Seqs(Braces \cup {Ch("x"), Stray}, n)}

JsonCalls(moment) ==
    IF Clockless(moment)
    THEN {Call(fn, text) : fn \in {"extract_structured_data", "extract_json_from_response"},
                           text \in JsonTexts(MaxText)}
    ELSE {}

\* ------------------------------------------ project/src/helpers/memory.py
\* A message of the agent's conversation: its role, and its one content block,
\* which holds a text, a tool result or a tool use.
Message(role, block, text) ==
    JObj(<<Field("role", <<role>>), Member("content", JList(<<JObj(<<Field(block, text)>>)>>))>>)

RoleOf(msg) == DictGet(msg, "role", JNull).s[1]

\* msg["content"][0]
BlockOf(msg) == DictGet(msg, "content", JNull).items[1]

\* self.namespaces: the strategy types, in the order of the memory's strategies.
ContextTypes == <<"USER_PREFERENCE", "SEMANTIC">>

\* A memory record as retrieve_memories returns it.
Memory(text) == JObj(<<Member("content", JObj(<<Field("text", text)>>))>>)

\* The context strings made of the memories of one namespace:
\* f"[{context_type.upper()}] {text}" for each dict that holds a dict under
\* content with a text that is not blank.
ContextOf(context_type, memories) ==
    LET Kept(memory) ==
            /\ memory.type = "object"
            /\ DictGet(memory, "content", JObj(<<>>)).type = "object"
            /\ Strip(DictGet(DictGet(memory, "content", JObj(<<>>)), "text", JStr(<<>>)).s) # <<>>
        kept == SelectSeq(memories, Kept)
    IN  [i \in 1..Len(kept) |->
            <<"[", context_type, "] ">>
            \o Strip(DictGet(DictGet(kept[i], "content", JObj(<<>>)), "text", JStr(<<>>)).s)]

RECURSIVE AllContext(_, _)
\* all_context after the first n namespaces were queried.
AllContext(retrieve, n) ==
    IF n = 0 THEN <<>>
    ELSE AllContext(retrieve, n - 1) \o ContextOf(ContextTypes[n], retrieve[n].items)

\* messages with the text of the last one behind the context.
Injected(messages, all_context) ==
    LET last == messages[Len(messages)]
        original_text == DictGet(BlockOf(last), "text", JNull).s
        text == <<"Product Launch Context:\n">> \o JoinLines(all_context) \o <<"\n\n">>
                \o original_text
    IN  [messages EXCEPT ![Len(messages)] = Message("user", "text", text)]

\* A hook that injects what it has retrieved when a later retrieval fails.
RetrieveProductContextEager(messages, retrieve) ==
    LET last == messages[Len(messages)]
        raised == {i \in 1..Len(retrieve) : retrieve[i].type # "list"}
        queried == IF raised = {} THEN Len(retrieve) ELSE SetMin(raised)
        all_context == AllContext(retrieve, IF raised = {} THEN queried ELSE queried - 1)
    IN  IF ~(RoleOf(last) = "user" /\ ~DictHas(BlockOf(last), "toolResult"))
        THEN [messages |-> messages, queries |-> 0, logged |-> 0]
        ELSE [messages |-> IF all_context # <<>> THEN Injected(messages, all_context)
                           ELSE messages,
              queries |-> queried, logged |-> IF raised = {} THEN 0 ELSE 1]

\* ProductHuntMemoryHooks.retrieve_product_context: retrieve[i] is what
\* retrieve_memories does for the i-th namespace, a list of memories or, when
\* it raises, a string.  The messages after the hook, the number of
\* retrieve_memories calls made and the number of errors logged.
RetrieveProductContext(messages, retrieve) ==
    LET last == messages[Len(messages)]
        raised == {i \in 1..Len(retrieve) : retrieve[i].type # "list"}
        all_context == AllContext(retrieve, Len(retrieve))
    IN  IF ~(RoleOf(last) = "user" /\ ~DictHas(BlockOf(last), "toolResult"))
        THEN [messages |-> messages, queries |-> 0, logged |-> 0]
        ELSE IF raised # {}
        THEN [messages |-> messages, queries |-> SetMin(raised), logged |-> 1]
        ELSE [messages |-> IF all_context # <<>> THEN Injected(messages, all_context)
                           ELSE messages,
              queries |-> Len(retrieve), logged |-> 0]

\* The loop of save_launch_interaction over reversed(messages): the text of
\* the last message, and the text of the nearest user message before it that
\* is no tool result ("" when there is none).
LastUserQuery(messages) ==
    LET users == {i \in 1..(Len(messages) - 1) :
                    RoleOf(messages[i]) = "user" /\ ~DictHas(BlockOf(messages[i]), "toolResult")}
    IN  IF users = {} THEN <<>>
        ELSE DictGet(BlockOf(messages[SetMax(users)]), "text", JNull).s

\* ProductHuntMemoryHooks.save_launch_interaction: create_event is what the
\* memory service does, "ok" or "raise".  The pair handed to create_event, if
\* it is called, and the number of errors logged (one as well when the last
\* message is the assistant's and holds no text).
SaveLaunchInteraction(messages, create_event) ==
    LET last == messages[Len(messages)]
        agent_response == DictGet(BlockOf(last), "text", JNull).s
        user_query == LastUserQuery(messages)
    IN  IF Len(messages) >= 2 /\ RoleOf(last) = "assistant" /\ ~DictHas(BlockOf(last), "text")
        THEN [saved |-> JNull, logged |-> 1]
        ELSE IF Len(messages) >= 2 /\ RoleOf(last) = "assistant"
                /\ user_query # <<>> /\ agent_response # <<>>
        THEN [saved |-> JList(<<JStr(user_query), JStr(agent_response)>>),
              logged |-> IF create_event = "raise" THEN 1 ELSE 0]
        ELSE [saved |-> JNull, logged |-> 0]

\* The conversations the hooks are called on.
Conversations ==
    LET user == Message("user", "text", <<"q">>)
        tool_use == Message("assistant", "toolUse", <<"t">>)
        tool_result == Message("user", "toolResult", <<"t">>)
        assistant == Message("assistant", "text", <<"r">>)
    IN  {<<user>>, <<user, assistant>>, <<user, tool_use, tool_result>>,
         <<user, tool_use, tool_result, assistant>>, <<assistant>>,
         <<tool_result, assistant>>, <<user, assistant, user>>, <<user, tool_use>>}

\* What retrieve_memories does for one namespace.
Retrievals ==
    {JStr(<<"raise">>), JList(<<>>), JList(<<Memory(<<"m">>)>>),
     JList(<<Memory(<<" ">>), JStr(<<"x">>)>>), JList(<<Memory(<<" ", "n">>), Memory(<<"m">>)>>)}

HookCalls(moment) ==
    IF Clockless(moment)
    THEN {Call("retrieve_product_context",
               JObj(<<Member("messages", JList(messages)),
                      Member("retrieve", JList(<<first, second>>))>>)) :
            messages \in Conversations, first \in Retrievals, second \in Retrievals}
         \cup {Call("save_launch_interaction",
                    JObj(<<Member("messages", JList(messages)),
                           Field("create_event", <<create_event>>)>>)) :
                 messages \in Conversations, create_event \in {"ok", "raise"}}
    ELSE {}

FunctionCalls(moment) ==
    DateCalls(moment) \cup MilestoneCalls(moment) \cup ListCalls(moment) \cup JsonCalls(moment)
    \cup HookCalls(moment)

InitFunctions ==
    /\ pc = "call"
    /\ now \in FunctionMoments
    /\ request \in FunctionCalls(now)
    /\ agent_type = ""
    /\ locals = JObj(<<>>)
    /\ calls = <<>>
    /\ seen = <<>>
    /\ invoked = {}
    /\ caught = <<>>
    /\ agent_result = NoResult
    /\ result = NoResult
    /\ ApiIdle

Fn == DictGet(request, "fn", JNull).s[1]

\* The function returns, or raises: outcome is Ok(v) or Raise(msg); notes are
\* what the call did on its way, kept beside the return value.
OutcomeNoting(fn, outcome, notes) ==
    /\ pc = "call"
    /\ Fn = fn
    /\ pc' = "returned"
    /\ calls' = <<fn>>
    /\ locals' = JObj((IF outcome.ok THEN <<Member("return", outcome.val)>> ELSE <<>>) \o notes)
    /\ caught' = IF outcome.ok THEN caught ELSE <<outcome.err>>
    /\ UNCHANGED <<agent_type, request, now, seen, invoked, agent_result, result>>
    /\ UNCHANGED api

Outcome(fn, outcome) == OutcomeNoting(fn, outcome, <<>>)

\* A datetime as a value: its day in n, its time of day in items.
DateValue(dt) == [JNum(dt.d) EXCEPT !.items = <<JNum(dt.t)>>]

CallParseLaunchDate ==
    LET parsed == ParseLaunchDate(Arg("arg"), now)
    IN  Outcome("parse_launch_date",
                IF parsed.ok THEN Ok(DateValue(parsed.val)) ELSE Raise(parsed.err))

CallExtractMilestones == Outcome("extract_milestones", ExtractMilestones(Arg("arg")))

CallGenerateSuggestions ==
    Outcome("generate_suggestions", Ok(GenerateSuggestions(Arg("arg").items, Foo, Devs)))

CallGenerateInsights ==
    Outcome("generate_insights", Ok(GenerateInsights(Arg("arg").items, JStr(<<"AI">>))))

\* utils.extract_json_from_response: the parsed span, or the whole response
\* under "content" when there is no span or it does not parse.
ExtractJsonFromResponse(response) ==
    LET json_match == JsonMatch(response)
        data == JsonLoads(json_match.group)
    IN  IF json_match.found /\ data.ok
        THEN data.val
        ELSE JObj(<<Member("content", TextOf(response))>>)

\* json.loads(json_match.group()): the text handed to the parser, if any, and
\* the number of calls of json.loads.
Parsing(response) ==
    LET json_match == JsonMatch(response)
    IN  <<Member("loads", JNum(IF json_match.found THEN 1 ELSE 0)),
          Member("submitted", IF json_match.found THEN JList(json_match.group) ELSE JNull)>>

CallExtractStructuredData ==
    OutcomeNoting("extract_structured_data",
                  Ok(ExtractStructuredData(Arg("arg").items, StrList(<< <<"taglines">> >>))),
                  Parsing(Arg("arg").items))

CallExtractJsonFromResponse ==
    OutcomeNoting("extract_json_from_response",
                  Ok(ExtractJsonFromResponse(Arg("arg").items)),
                  Parsing(Arg("arg").items))

\* The hooks return None: what they did is kept beside.
CallRetrieveProductContext ==
    LET done == RetrieveProductContext(DictGet(Arg("arg"), "messages", JNull).items,
                                       DictGet(Arg("arg"), "retrieve", JNull).items)
    IN  OutcomeNoting("retrieve_product_context", Ok(JNull),
                      <<Member("messages", JList(done.messages)),
                        Member("queries", JNum(done.queries)),
                        Member("logged", JNum(done.logged))>>)

CallSaveLaunchInteraction ==
    LET done == SaveLaunchInteraction(DictGet(Arg("arg"), "messages", JNull).items,
                                      DictGet(Arg("arg"), "create_event", JNull).s[1])
    IN  OutcomeNoting("save_launch_interaction", Ok(JNull),
                      <<Member("saved", done.saved), Member("logged", JNum(done.logged))>>)

NextFunctions ==
    \/ CallParseLaunchDate
    \/ CallRetrieveProductContext
    \/ CallSaveLaunchInteraction
    \/ CallExtractStructuredData
    \/ CallExtractJsonFromResponse
    \/ CallExtractMilestones
    \/ CallGenerateSuggestions
    \/ CallGenerateInsights

SpecFunctions == InitFunctions /\ [][NextFunctions]_vars

\* --------------------------------------------------- project/api/main.py
\* The agents' state, untouched by the web application's handlers below.
app == <<pc, agent_type, request, now, locals, calls, seen, invoked, caught,
         agent_result, result>>

\* ProductHuntLaunchAgent(user_id=user_id, session_id=session_id), constructed
\* while serving request `by`: a missing id is replaced by a fresh random one.
ProductHuntLaunchAgent(user_id, session_id, by) ==
    [user_id |-> IF user_id # "" THEN user_id ELSE "user_" \o by,
     session_id |-> IF session_id # "" THEN session_id ELSE "session_" \o by,
     by |-> by]

\* A get_agent that keeps the agent it has whoever asks.
GetAgentKeepsFirst(global, user_id, session_id, by, constructs) ==
    IF global # NoAgent THEN [agent |-> global, ok |-> TRUE, val |-> global, left |-> constructs]
    ELSE IF constructs = 0 THEN [agent |-> global, ok |-> FALSE, val |-> NoAgent, left |-> 0]
    ELSE LET made == ProductHuntLaunchAgent(user_id, session_id, by)
         IN  [agent |-> made, ok |-> TRUE, val |-> made, left |-> constructs - 1]

\* A get_agent that makes a new agent for every call that names a user.
GetAgentAlwaysNew(global, user_id, session_id, by, constructs) ==
    IF constructs = 0 /\ (global = NoAgent \/ user_id # "")
    THEN [agent |-> global, ok |-> FALSE, val |-> NoAgent, left |-> 0]
    ELSE IF global = NoAgent \/ user_id # ""
    THEN LET made == ProductHuntLaunchAgent(user_id, session_id, by)
         IN  [agent |-> made, ok |-> TRUE, val |-> made, left |-> constructs - 1]
    ELSE [agent |-> global, ok |-> TRUE, val |-> global, left |-> constructs]

\* get_agent(user_id, session_id) called with the module global being
\* `global`: the global after the call (agent), and the agent returned (val)
\* or the exception of a constructor that fails (ok FALSE).  "" is None or an
\* empty id: both are falsy.  `constructs` is the number of constructor calls
\* that succeed before one fails, and `left` what remains of it.
GetAgent(global, user_id, session_id, by, constructs) ==
    LET first == IF global = NoAgent THEN ProductHuntLaunchAgent("", "", by) ELSE global
        left == IF global = NoAgent THEN constructs - 1 ELSE constructs
    IN  IF global = NoAgent /\ constructs = 0
        THEN [agent |-> global, ok |-> FALSE, val |-> NoAgent, left |-> 0]
        ELSE IF user_id # "" /\ first.user_id # user_id
        THEN IF left > 0
             THEN LET made == ProductHuntLaunchAgent(user_id, session_id, by)
                  IN  [agent |-> made, ok |-> TRUE, val |-> made, left |-> left - 1]
             ELSE [agent |-> first, ok |-> FALSE, val |-> NoAgent, left |-> 0]
        ELSE [agent |-> first, ok |-> TRUE, val |-> first, left |-> left]

\* The requests in flight at once, the users, and the endpoints: /api/chat
\* and /api/analyze-product (like every endpoint that takes a ProductRequest) pass the
\* body's user_id to get_agent; /api/chat-stream and /api/session/create call
\* get_agent().
Clients == {"r1", "r2"}

Users == {"alice", "bob"}

PassingId == {"/api/chat", "/api/analyze-product"}

Endpoints == PassingId \cup {"/api/chat-stream", "/api/session/create"}

\* What agent_instance.chat does: it returns a str, it returns the result
\* object of the agent framework, whose str() is `text`, or it raises `text`.
NoReply == [kind |-> "", text |-> <<>>]

ChatReplies ==
    {[kind |-> "str", text |-> <<"ok">>], [kind |-> "AgentResult", text |-> <<"ok">>],
     [kind |-> "raise", text |-> <<"boom">>]}

\* The text the handlers extract from what chat returned: the str itself, or
\* str(response) of a result object that has neither content nor text.
ResponseText(reply) == reply.text

\* AgentResponse(response=value, ...): the field is declared str, and the
\* model is built only from a str.
IsValidResponse(kind) == kind = "str"

\* chat_with_agent from the return of agent_instance.chat: the response field
\* is given what chat returned, as it is.
ChatAnswer(reply) ==
    IF reply.kind = "raise"
    THEN [status |-> 500, response |-> <<>>, detail |-> <<"Agent error: ">> \o reply.text]
    ELSE IF ~IsValidResponse(reply.kind)
    THEN [status |-> 500, response |-> <<>>,
          detail |-> <<"Agent error: ", "1 validation error for AgentResponse">>]
    ELSE [status |-> 200, response |-> reply.text, detail |-> <<>>]

\* analyze_product from the return of agent_instance.chat: the response field
\* is given the extracted text.
AnalyzeAnswer(reply) ==
    IF reply.kind = "raise"
    THEN [status |-> 500, response |-> <<>>, detail |-> <<"Analysis error: ">> \o reply.text]
    ELSE [status |-> 200, response |-> ResponseText(reply), detail |-> <<>>]

\* A request the server has accepted: its endpoint, the ids of its body, the
\* handler's agent_instance, what its chat call did, and the response: its
\* status (0: none yet), its response field and the detail of its error.
Handler(endpoint, user_id) ==
    [pc |-> "pending", endpoint |-> endpoint, user_id |-> user_id,
     session_id |-> IF user_id = "" THEN "" ELSE "session_" \o user_id,
     agent_instance |-> NoAgent, status |-> 0, reply |-> NoReply, response |-> <<>>,
     detail |-> <<>>]

Idle == [pc |-> "idle", endpoint |-> "", user_id |-> "", session_id |-> "",
         agent_instance |-> NoAgent, status |-> 0, reply |-> NoReply, response |-> <<>>,
         detail |-> <<>>]

InitSingleton ==
    /\ agent = NoAgent
    /\ handlers = [r \in Clients |-> Idle]
    /\ stream = <<>>
    /\ pc = "idle"
    /\ agent_type = ""
    /\ request = JObj(<<>>)
    /\ now = [d |-> 1, t |-> 0]
    /\ locals = JObj(<<>>)
    /\ calls = <<>>
    /\ seen = <<>>
    /\ invoked = {}
    /\ caught = <<>>
    /\ agent_result = NoResult
    /\ result = NoResult

\* The server accepts a request: its handler is scheduled on the event loop.
Arrive(r, endpoint, user_id) ==
    /\ handlers[r].pc = "idle"
    /\ handlers' = [handlers EXCEPT ![r] = Handler(endpoint, user_id)]
    /\ UNCHANGED <<agent, stream, app>>

\* What a handler's call of get_agent leaves behind: the global, and the
\* handler with its agent_instance, or, when the call raised, with the status
\* its except branch answers with.
Called(r, got, then, failed) ==
    /\ agent' = got.agent
    /\ handlers' = [handlers EXCEPT ![r] =
            IF got.ok THEN [@ EXCEPT !.agent_instance = got.val, !.pc = then,
                                     !.status = IF then = "responded" THEN 200 ELSE 0]
            ELSE [@ EXCEPT !.pc = "responded", !.status = failed]]
    /\ UNCHANGED <<stream, app>>

\* chat_with_agent, analyze_product: get_agent() (chat only), then
\* get_agent(user_id=..., session_id=...), agent_instance.chat and the
\* response, with no await in between.
HandleWithId(r, constructs, reply) ==
    /\ handlers[r].pc = "pending"
    /\ handlers[r].endpoint \in PassingId
    /\ LET h == handlers[r]
           before == IF h.endpoint = "/api/chat"
                     THEN GetAgent(agent, "", "", r, constructs)
                     ELSE [agent |-> agent, ok |-> TRUE, val |-> agent, left |-> constructs]
           got == IF before.ok
                  THEN GetAgent(before.agent, h.user_id, h.session_id, r, before.left)
                  ELSE before
           answer == IF h.endpoint = "/api/chat" THEN ChatAnswer(reply) ELSE AnalyzeAnswer(reply)
       IN  /\ agent' = got.agent
           /\ handlers' = [handlers EXCEPT ![r] =
                  IF got.ok
                  THEN [@ EXCEPT !.pc = "responded", !.agent_instance = got.val,
                                 !.reply = reply, !.status = answer.status,
                                 !.response = answer.response, !.detail = answer.detail]
                  ELSE [@ EXCEPT !.pc = "responded", !.status = 500,
                                 !.detail = <<(IF h.endpoint = "/api/chat"
                                               THEN "Agent error: " ELSE "Analysis error: "),
                                              "agent initialization failed">>]]
           /\ UNCHANGED <<stream, app>>

\* create_user_session: get_agent() and the response, which reports a
\* failure in its body.
HandleSession(r, constructs) ==
    /\ handlers[r].pc = "pending"
    /\ handlers[r].endpoint = "/api/session/create"
    /\ Called(r, GetAgent(agent, "", "", r, constructs), "responded", 200)

\* generate_response of chat_with_agent_stream up to its first yield:
\* get_agent(), then the start frame, or the error frame.
StreamStart(r, constructs) ==
    /\ handlers[r].pc = "pending"
    /\ handlers[r].endpoint = "/api/chat-stream"
    /\ Called(r, GetAgent(agent, "", "", r, constructs), "streaming", 200)

\* generate_response resumed: agent_instance.chat and the frames that follow.
StreamChat(r) ==
    /\ handlers[r].pc = "streaming"
    /\ handlers' = [handlers EXCEPT ![r].pc = "responded", ![r].status = 200]
    /\ UNCHANGED <<agent, stream, app>>

\* The response has been sent.
Close(r) ==
    /\ handlers[r].pc = "responded"
    /\ handlers' = [handlers EXCEPT ![r] = Idle]
    /\ UNCHANGED <<agent, stream, app>>

NextSingleton ==
    \/ \E r \in Clients, endpoint \in Endpoints, user_id \in Users \cup {""} :
          Arrive(r, endpoint, user_id)
    \/ \E r \in Clients, constructs \in 0..2, reply \in ChatReplies :
          HandleWithId(r, constructs, reply)
    \/ \E r \in Clients, constructs \in 0..1 : HandleSession(r, constructs)
    \/ \E r \in Clients, constructs \in 0..1 : StreamStart(r, constructs)
    \/ \E r \in Clients : StreamChat(r)
    \/ \E r \in Clients : Close(r)

\* The event loop runs every handler that is ready, and the requests keep
\* coming.
SpecSingleton == InitSingleton /\ [][NextSingleton]_vars /\ WF_vars(NextSingleton)

\* ------------------------------------ project/api/main.py, /api/chat-stream
\* json.dumps writes True and False as true and false.
JBool(b) == [k |-> "", type |-> "bool", s |-> <<>>, n |-> IF b THEN 1 ELSE 0, items |-> <<>>]

\* The frames generate_response yields, each the object json.dumps is given.
StartFrame == JObj(<<Field("type", <<"start">>)>>)

\* A token frame that claims to be the last.
TokenFrameDone(word_buffer, accumulated_text) ==
    JObj(<<Field("type", <<"token">>), Field("content", word_buffer),
           Field("accumulated", accumulated_text), Member("done", JBool(TRUE))>>)

TokenFrame(word_buffer, accumulated_text) ==
    JObj(<<Field("type", <<"token">>), Field("content", word_buffer),
           Field("accumulated", accumulated_text), Member("done", JBool(FALSE))>>)

\* A completion frame that repeats the text under "accumulated" as well.
CompleteFrameAccumulated(accumulated_text) ==
    JObj(<<Field("type", <<"complete">>), Field("content", accumulated_text),
           Field("accumulated", accumulated_text), Member("done", JBool(TRUE))>>)

CompleteFrame(accumulated_text) ==
    JObj(<<Field("type", <<"complete">>), Field("content", accumulated_text),
           Member("done", JBool(TRUE))>>)

ErrorFrame(e) ==
    JObj(<<Field("type", <<"error">>), Field("error", e), Member("done", JBool(TRUE))>>)

\* char in ' \n\t.,!?;:'
Boundaries == {" ", "\n", "\t", ".", ",", "!", "?", ";", ":"}

RECURSIVE ScanUnstripped(_, _, _, _)
\* A loop that yields at every boundary, whatever the buffer holds.
ScanUnstripped(response_text, i, accumulated_text, word_buffer) ==
    IF i >= Len(response_text)
    THEN [yields |-> FALSE, i |-> i, accumulated_text |-> accumulated_text,
          word_buffer |-> word_buffer]
    ELSE LET char == response_text[i + 1]
             accumulated == Append(accumulated_text, char)
             buffer == Append(word_buffer, char)
         IN  IF char \in Boundaries \/ (i > 0 /\ i % 3 = 0)
             THEN [yields |-> TRUE, i |-> i + 1, accumulated_text |-> accumulated,
                   word_buffer |-> buffer]
             ELSE ScanUnstripped(response_text, i + 1, accumulated, buffer)

RECURSIVE Scan(_, _, _, _)
\* The for loop of generate_response from index i (enumerate counts from 0)
\* to its next yield, or to its end: yields tells which.
Scan(response_text, i, accumulated_text, word_buffer) ==
    IF i >= Len(response_text)
    THEN [yields |-> FALSE, i |-> i, accumulated_text |-> accumulated_text,
          word_buffer |-> word_buffer]
    ELSE LET char == response_text[i + 1]
             accumulated == Append(accumulated_text, char)
             buffer == Append(word_buffer, char)
         IN  IF (char \in Boundaries \/ (i > 0 /\ i % 3 = 0)) /\ Strip(buffer) # <<>>
             THEN [yields |-> TRUE, i |-> i + 1, accumulated_text |-> accumulated,
                   word_buffer |-> buffer]
             ELSE Scan(response_text, i + 1, accumulated, buffer)

\* The messages of a ChatRequest and the texts agent_instance.chat answers.
Messages == {<<"h", "i">>, <<" ">>, <<>>}

StreamChars == {"a", " ", "."}

ResponseTexts == Seqs(StreamChars, MaxText)

ChatErrors == {<<"Bedrock API error: ", "ThrottlingException">>}

\* No request: generate_response's locals before it runs.  pc is where the
\* generator stands (the yield it is suspended at), status the HTTP status,
\* chats the calls of agent_instance.chat made, frames the frames yielded.
NoStream ==
    [pc |-> "idle", message |-> <<>>, status |-> 0, agent_instance |-> NoAgent, chats |-> 0,
     response_text |-> <<>>, i |-> 0, accumulated_text |-> <<>>, word_buffer |-> <<>>,
     frames |-> <<>>]

InitStream ==
    /\ agent = NoAgent
    /\ handlers = <<>>
    /\ stream = NoStream
    /\ pc = "idle"
    /\ agent_type = ""
    /\ request = JObj(<<>>)
    /\ now = [d |-> 1, t |-> 0]
    /\ locals = JObj(<<>>)
    /\ calls = <<>>
    /\ seen = <<>>
    /\ invoked = {}
    /\ caught = <<>>
    /\ agent_result = NoResult
    /\ result = NoResult

\* chat_with_agent_stream: a blank message is refused with status 400, any
\* other gets the StreamingResponse over generate_response().
ChatStream(message) ==
    /\ stream.pc = "idle"
    /\ stream' = IF Strip(message) = <<>>
                 THEN [NoStream EXCEPT !.pc = "closed", !.message = message, !.status = 400]
                 ELSE [NoStream EXCEPT !.pc = "accepted", !.message = message, !.status = 200]
    /\ UNCHANGED <<agent, handlers, app>>

\* generate_response up to its first yield: get_agent(), then the start
\* frame, or the error frame of the except branch.
Begin(constructs) ==
    /\ stream.pc = "accepted"
    /\ LET got == GetAgent(agent, "", "", "r1", constructs)
       IN  /\ agent' = got.agent
           /\ stream' = IF got.ok
                        THEN [stream EXCEPT !.pc = "start", !.agent_instance = got.val,
                                            !.frames = <<StartFrame>>]
                        ELSE [stream EXCEPT !.pc = "error",
                                            !.frames = <<ErrorFrame(<<"agent initialization failed">>)>>]
    /\ UNCHANGED <<handlers, app>>

\* The loop from where it stands to its next yield; past its end, the frame
\* of the remaining buffer if it holds more than whitespace, else the
\* completion frame.
Continue(st) ==
    LET next == Scan(st.response_text, st.i, st.accumulated_text, st.word_buffer)
        at == [st EXCEPT !.i = next.i, !.accumulated_text = next.accumulated_text,
                         !.word_buffer = next.word_buffer]
    IN  IF next.yields
        THEN [at EXCEPT !.pc = "token",
                        !.frames = Append(@, TokenFrame(next.word_buffer, next.accumulated_text))]
        ELSE IF Strip(next.word_buffer) # <<>>
        THEN [at EXCEPT !.pc = "remaining",
                        !.frames = Append(@, TokenFrame(next.word_buffer, next.accumulated_text))]
        ELSE [at EXCEPT !.pc = "complete",
                        !.frames = Append(@, CompleteFrame(next.accumulated_text))]

\* Resumed after the start frame: agent_instance.chat(request.message) returns
\* its text, and the loop runs to its first yield.
ChatReturns(text) ==
    /\ stream.pc = "start"
    /\ stream' = Continue([stream EXCEPT !.chats = @ + 1, !.response_text = text])
    /\ UNCHANGED <<agent, handlers, app>>

\* Resumed after the start frame: agent_instance.chat raises.
ChatRaises(e) ==
    /\ stream.pc = "start"
    /\ stream' = [stream EXCEPT !.chats = @ + 1, !.pc = "error",
                                !.frames = Append(@, ErrorFrame(e))]
    /\ UNCHANGED <<agent, handlers, app>>

\* A resumption that goes to sleep with the buffer as it was.
SleepKeepingBuffer ==
    /\ stream.pc = "token"
    /\ stream' = [stream EXCEPT !.pc = "sleep"]
    /\ UNCHANGED <<agent, handlers, app>>

\* Resumed after a token frame of the loop: word_buffer = "", then
\* await asyncio.sleep(0.02).
Sleep ==
    /\ stream.pc = "token"
    /\ stream' = [stream EXCEPT !.pc = "sleep", !.word_buffer = <<>>]
    /\ UNCHANGED <<agent, handlers, app>>

\* The sleep is over: the loop goes on to its next yield.
Wake ==
    /\ stream.pc = "sleep"
    /\ stream' = Continue(stream)
    /\ UNCHANGED <<agent, handlers, app>>

\* Resumed after the frame of the remaining buffer: the completion frame.
Complete ==
    /\ stream.pc = "remaining"
    /\ stream' = [stream EXCEPT !.pc = "complete",
                                !.frames = Append(@, CompleteFrame(stream.accumulated_text))]
    /\ UNCHANGED <<agent, handlers, app>>

\* Resumed after the completion frame or the error frame: the generator ends.
Exhaust ==
    /\ stream.pc \in {"complete", "error"}
    /\ stream' = [stream EXCEPT !.pc = "closed"]
    /\ UNCHANGED <<agent, handlers, app>>

\* The response is over; the next request finds the module global as it is.
NextRequest ==
    /\ stream.pc = "closed"
    /\ stream' = NoStream
    /\ UNCHANGED <<agent, handlers, app>>

NextStream ==
    \/ \E message \in Messages : ChatStream(message)
    \/ \E constructs \in 0..1 : Begin(constructs)
    \/ \E text \in ResponseTexts : ChatReturns(text)
    \/ \E e \in ChatErrors : ChatRaises(e)
    \/ Sleep
    \/ Wake
    \/ Complete
    \/ Exhaust
    \/ NextRequest

SpecStream == InitStream /\ [][NextStream]_vars

\* ------------------------------------------------------------ the properties
Range(seq) == {seq[i] : i \in 1..Len(seq)}

\* sub occurs in seq as a run of consecutive pieces.
Infix(sub, seq) ==
    \E i \in 0..(Len(seq) - Len(sub)) : SubSeq(seq, i + 1, i + Len(sub)) = sub

Returned == pc = "done"

\* The text resolved by parse_launch_date for the request in hand.
Resolved == ParseLaunchDate(Arg("launch_date"), now)

TemplateTagline ==
    JStr(<<"Revolutionary ">> \o PyStr(Arg("product_name")) \o <<" for ">>
         \o PyStr(Arg("target_audience")))

HasTemplateTagline(envelope) ==
    TemplateTagline \in Range(DictGet(envelope.data, "taglines", JList(<<>>)).items)

\* The template a call falls back to, for the request in hand.
FallbackFor(call) ==
    CASE call = "taglines" ->
            FallbackTaglines(Arg("product_name"), Arg("elevator_pitch"), Arg("target_audience"))
      [] call = "tweets" ->
            FallbackTweets(Arg("product_name"), Arg("elevator_pitch"), Arg("target_audience"))
      [] call = "top_launches" -> FallbackLaunches(Arg("product_category"))
      [] call = "recommended_hunters" -> FallbackHunters(Arg("product_category"))
      [] call = "competitor_analysis" -> FallbackAnalysis
      [] OTHER -> CreateFallbackTimeline(CalculateTimelineDays(Resolved.val, now))

Unparsed == {"nojson", "malformed"}

Unextractable == Unparsed \cup {"missing", "wrongtype"}

\* C1: for every agent_type outside planning, asset_prep and research,
\* route_request returns an envelope with success false, the error "Unknown
\* agent type: " followed by the token and agent_type equal to the token; no
\* exception is raised and no agent is called.
C1_UnknownAgentType ==
    (Returned /\ agent_type \notin KnownAgents) =>
        /\ result.kind = "AgentResponse"
        /\ result.success = FALSE
        /\ result.error = JStr(<<"Unknown agent type: ", agent_type>>)
        /\ result.agent_type = agent_type
        /\ caught = <<>>
        /\ invoked = {}
        /\ calls = <<>>
        /\ agent_result = NoResult

C1_Witness ==
    /\ Returned
    /\ agent_type = "bogus"
    /\ result.error = JStr(<<"Unknown agent type: ", "bogus">>)
    /\ result.agent_type = "bogus"

WellFormed(envelope) ==
    /\ envelope.success => envelope.error = JNull
    /\ ~envelope.success => envelope.data = JNull

\* C2: every envelope returned by an agent's process or by route_request,
\* after any sequence of requests and any model outcome, has a null error when
\* success is true and null data when success is false.
C2_EnvelopeInvariant ==
    /\ agent_result.kind # "none" => WellFormed(agent_result)
    /\ result.kind # "none" => WellFormed(result)

\* A model call fails after earlier calls of the request produced content.
C2_Witness ==
    /\ Returned
    /\ Len(calls) >= 2
    /\ locals # JObj(<<>>)
    /\ ~result.success
    /\ result.data = JNull
    /\ result.error # JNull

\* C3: for every request and every outcome of the model calls, process and
\* route_request return an envelope and never raise; when an exception left a
\* step of the operation, the envelope has success false and its error text
\* contains the exception's message.
C3_ExceptionsBecomeFailures ==
    Returned =>
        /\ result.kind = "AgentResponse"
        /\ agent_type \in KnownAgents => agent_result.kind = "dict"
        /\ \A i \in 1..Len(caught) :
              /\ ~result.success
              /\ result.error.type = "string"
              /\ Infix(caught[i], result.error.s)
              /\ ~agent_result.success
              /\ Infix(caught[i], agent_result.error.s)

\* The second model call of a request is refused by the service.
C3_Witness ==
    /\ Returned
    /\ Len(calls) = 2
    /\ caught = <<InvokeLlmError("AccessDeniedException")>>
    /\ ~result.success
    /\ Infix(<<"Access denied: ", "AccessDeniedException">>, result.error.s)

\* C4 as the specification states it: when the model call of Asset-Prep
\* raises, the envelope carries a taglines list containing "Revolutionary
\* <product_name> for <target_audience>".
C4_RaiseYieldsTemplateTagline ==
    (Returned /\ agent_type = "asset_prep" /\ "raise" \in Range(seen)) =>
        HasTemplateTagline(agent_result)

\* C4: when the taglines model call of Asset-Prep returns text with no JSON
\* object in it, or with one that does not parse, a success envelope's
\* taglines contain "Revolutionary <product_name> for <target_audience>"; when
\* a model call raises, the envelope is a failure and carries no taglines.
C4_UnparsedTextYieldsTemplateTagline ==
    (Returned /\ agent_type = "asset_prep") =>
        /\ (seen[1] \in Unparsed /\ result.success) =>
              /\ HasTemplateTagline(agent_result)
              /\ HasTemplateTagline(result)
        /\ "raise" \in Range(seen) =>
              /\ ~agent_result.success
              /\ agent_result.data = JNull
              /\ ~HasTemplateTagline(agent_result)

C4_Witness ==
    /\ Returned
    /\ agent_type = "asset_prep"
    /\ Arg("product_name") = Foo
    /\ Arg("target_audience") = Devs
    /\ seen[1] = "malformed"
    /\ result.success
    /\ JStr(<<"Revolutionary ", "Foo", " for ", "devs">>)
          \in Range(DictGet(result.data, "taglines", JList(<<>>)).items)

ListFields == {"taglines", "tweets", "suggestions", "insights", "top_launches",
               "recommended_hunters", "timeline"}

NonEmptyList(v) == v.type = "list" /\ v.items # <<>>

NonEmptyString(v) == v.type = "string" /\ v.s # <<>>

\* C5: for every model response text, every field of a success envelope of
\* the three agents is non-empty: taglines, tweets, suggestions, insights,
\* top_launches, recommended_hunters and timeline are non-empty lists and
\* short_description is a non-empty string.
C5_SuccessFieldsNonEmpty ==
    (Returned /\ result.success) =>
        /\ \A key \in ListFields :
              DictHas(result.data, key) => NonEmptyList(DictGet(result.data, key, JNull))
        /\ DictHas(result.data, "short_description") =>
              NonEmptyString(DictGet(result.data, "short_description", JNull))

\* C6: whenever a model call returns text from which the expected structure
\* cannot be extracted (no JSON object, malformed JSON, the expected key
\* missing or of the wrong type), process still returns success with the
\* template fallback for that field, never a failure envelope.
C6_ExtractionNeverFails ==
    (Returned /\ "raise" \notin Range(seen)) =>
        \A i \in 1..Len(seen) :
            seen[i] \in Unextractable =>
                /\ result.success
                /\ DictGet(result.data, calls[i], JNull) = FallbackFor(calls[i])

\* C9: Planning: whenever the resolved launch date is strictly before
\* today's date, process returns success false with an error beginning
\* "Launch date is in the past", builds no timeline and makes no model call; a
\* resolved date equal to today is not rejected.
C9_PastDateRejected ==
    (pc # "idle" /\ agent_type = "planning" /\ Resolved.ok) =>
        /\ Resolved.val.d < now.d =>
              /\ Returned
              /\ ~result.success
              /\ result.error.s[1] = "Launch date is in the past"
              /\ ~agent_result.success
              /\ agent_result.error.s[1] = "Launch date is in the past"
              /\ result.data = JNull
              /\ locals = JObj(<<>>)
              /\ calls = <<>>
              /\ seen = <<>>
        /\ Resolved.val.d = now.d =>
              \/ pc = "timeline"
              \/ /\ calls = <<"timeline">>
                 /\ result.error = JNull \/ result.error.s[1] # "Launch date is in the past"
                 /\ result.success =>
                       DictGet(result.data, "total_days", JNull) = JNum(0)

\* Yesterday's date, written out, sent after midnight.
C9_Witness ==
    /\ Returned
    /\ agent_type = "planning"
    /\ now.t = 1
    /\ Arg("launch_date") = DateText(now.d - 1)
    /\ ~result.success
    /\ result.error.s[1] = "Launch date is in the past"
    /\ calls = <<>>

\* C10: Planning: a launch-date text that is a bare non-negative integer N
\* resolves to the date exactly N days after today, whatever today's day of
\* the month is, so total_days equals N.
C10_BareIntegerIsDaysAhead ==
    (pc # "idle" /\ agent_type = "planning" /\ IsDigit(Arg("launch_date"))) =>
        /\ Resolved.ok
        /\ Resolved.val.d = now.d + IntOf(Arg("launch_date"))
        /\ (Returned /\ result.success) =>
              DictGet(result.data, "total_days", JNull) = JNum(IntOf(Arg("launch_date")))

\* ------------------------------------- the properties of SpecExtract
ExpectedKeys == {Arg("expected_keys").items[i].s[1] : i \in 1..Len(Arg("expected_keys").items)}

\* The last run applied extract_structured_data to a text whose span from the
\* first "{" to the last "}" parses as an object.
ExtractedFromObject ==
    /\ calls # <<>>
    /\ calls[Len(calls)] = "extract_structured_data"
    /\ seen[Len(seen)] = "ok"

Returns == DictGet(locals, "return", JNull)

Data == DictGet(locals, "data", JNull)

\* C7 as the specification states it: for a text containing a well-formed
\* JSON object, extract_structured_data returns a mapping whose key set is
\* exactly the expected keys, each one present in the JSON keeping the model's
\* value and each one absent from it mapped to null.
C7_ExactlyExpectedKeys ==
    ExtractedFromObject =>
        /\ DictKeys(Returns) = ExpectedKeys
        /\ \A key \in ExpectedKeys :
              DictGet(Returns, key, JStr(<<>>)) = DictGet(Data, key, JNull)

\* C7: for a text whose span from the first "{" to the last "}" parses as a
\* JSON object, extract_structured_data returns a mapping whose key set is the
\* JSON's keys together with the expected keys: every key of the JSON keeps
\* the model's value and every expected key absent from it is mapped to null.
C7_ExpectedKeysAdded ==
    ExtractedFromObject =>
        /\ DictKeys(Returns) = DictKeys(Data) \cup ExpectedKeys
        /\ \A key \in DictKeys(Data) :
              DictGet(Returns, key, JNull) = DictGet(Data, key, JStr(<<>>))
        /\ \A key \in ExpectedKeys \ DictKeys(Data) :
              DictGet(Returns, key, JStr(<<>>)) = JNull

\* The model wrote a key nobody asked for and left out one that was expected.
C7_Witness ==
    /\ ExtractedFromObject
    /\ ExpectedKeys = {"taglines", "tweets"}
    /\ DictKeys(Data) = {"notes"}
    /\ DictKeys(Returns) = {"notes", "taglines", "tweets"}
    /\ DictGet(Returns, "notes", JNull) = JList(<<>>)
    /\ DictGet(Returns, "tweets", JStr(<<>>)) = JNull

\* C8 as the specification states it: for malformed or JSON-free model
\* texts the value extraction returns is a function of the caller's inputs
\* only, for the agents' template fallbacks and for extract_structured_data:
\* two runs with the same inputs and different such texts return the same value.
C8_FallbackIgnoresModelText ==
    (pc = "compared" /\ seen[1] \in Unparsed /\ seen[2] \in Unparsed) =>
        Returns = DictGet(locals, "previous", JNull)

\* C8: for malformed or JSON-free model texts the value the agents'
\* JSON extraction returns (taglines, tweets, top launches, hunters, competitor
\* analysis) is the template fallback, a function of the caller's inputs only:
\* two runs with the same inputs and different such texts return the same value.
C8_AgentFallbackIgnoresModelText ==
    (pc = "compared" /\ calls[1] # "extract_structured_data"
        /\ seen[1] \in Unparsed /\ seen[2] \in Unparsed) =>
        /\ Returns = DictGet(locals, "previous", JNull)
        /\ Returns = FallbackFor(calls[1])

\* One text has no JSON object, the other one that does not parse.
C8_Witness ==
    /\ pc = "compared"
    /\ calls = <<"taglines", "taglines">>
    /\ seen = <<"nojson", "malformed">>
    /\ Returns = DictGet(locals, "previous", JNull)
    /\ Returns = FallbackTaglines(Arg("product_name"), Arg("elevator_pitch"),
                                  Arg("target_audience"))

\* --------------------------------------- the properties of SpecFunctions
FnReturned(fn) == pc = "returned" /\ calls = <<fn>>

Names(word) == ContainsWord(Arg("arg"), word)

DaysAhead == Returns.n - now.d

\* C11 as the specification states it: a launch-date text containing "next"
\* and "tuesday" (resp. "friday"), in any case, resolves to the nearest Tuesday
\* (resp. Friday) strictly after today, 1 to 7 days ahead; on a Wednesday "next
\* Tuesday" is 6 days later.
C11_NextWeekdayResolves ==
    (FnReturned("parse_launch_date") /\ Names("next")) =>
        /\ Names("tuesday") =>
              /\ caught = <<>>
              /\ DaysAhead \in 1..7
              /\ Weekday(Returns.n) = 1
              /\ Weekday(now.d) = 2 => DaysAhead = 6
        /\ Names("friday") =>
              /\ caught = <<>>
              /\ DaysAhead \in 1..7
              /\ Weekday(Returns.n) = 4

\* C11: a launch-date text containing "next" and "tuesday", in any case,
\* resolves to the nearest Tuesday strictly after today, 1 to 7 days ahead (6
\* on a Wednesday); one containing "next" and "friday" but not "tuesday"
\* resolves likewise to the nearest Friday strictly after today; the time of
\* day is that of the call.
C11_NextWeekdayTuesdayFirst ==
    (FnReturned("parse_launch_date") /\ Names("next")) =>
        /\ Names("tuesday") =>
              /\ caught = <<>>
              /\ DaysAhead \in 1..7
              /\ Weekday(Returns.n) = 1
              /\ Weekday(now.d) = 2 => DaysAhead = 6
              /\ Returns.items = <<JNum(now.t)>>
        /\ (Names("friday") /\ ~Names("tuesday")) =>
              /\ caught = <<>>
              /\ DaysAhead \in 1..7
              /\ Weekday(Returns.n) = 4
              /\ Returns.items = <<JNum(now.t)>>

\* "next Tuesday" asked on a Tuesday: a week later.
C11_Witness ==
    /\ FnReturned("parse_launch_date")
    /\ Arg("arg") = JStr(<<"next", " ", "Tuesday">>)
    /\ Weekday(now.d) = 1
    /\ DaysAhead = 7

\* ------------------------------------------------- more properties of Spec
\* C12: a planning request whose launch-date text parse_launch_date cannot
\* resolve is answered at once with a failure envelope, from the agent and from
\* the coordinator alike, whose error holds "Could not parse date" behind the
\* agent's "Planning failed: " label, with no data and no model call.
C12_UnparseableDateFails ==
    (pc # "idle" /\ agent_type = "planning" /\ ~Resolved.ok) =>
        /\ Returned
        /\ caught = <<Resolved.err>>
        /\ Resolved.err[1] = "Could not parse date: "
        /\ agent_result.kind = "dict"
        /\ ~agent_result.success
        /\ agent_result.data = JNull
        /\ agent_result.error = JStr(<<"Planning failed: ">> \o Resolved.err)
        /\ result.kind = "AgentResponse"
        /\ ~result.success
        /\ result.data = JNull
        /\ Infix(<<"Could not parse date: ">>, result.error.s)
        /\ calls = <<>>
        /\ seen = <<>>

\* "someday" is no date.
C12_Witness ==
    /\ Returned
    /\ agent_type = "planning"
    /\ Arg("launch_date") = JStr(<<"someday">>)
    /\ ~result.success
    /\ result.error.s = <<"Planning failed: ", "Could not parse date: ", "someday">>
    /\ calls = <<>>

\* The model calls one process makes when none fails.
CallOrder ==
    CASE agent_type = "asset_prep" -> AssetCalls
      [] agent_type = "research" -> ResearchCalls
      [] agent_type = "planning" -> <<"timeline">>
      [] OTHER -> <<>>

\* C16: the model calls of one process are a prefix of its fixed order
\* (taglines, description, tweets, suggestions for Asset-Prep; four for
\* Research; one for Planning), so none is sent twice; a call is sent only
\* when every earlier one has returned; a process that succeeds has made them
\* all; and a call that fails is the last one: the process returns a failure
\* at once.
C16_EachPromptOnceInOrder ==
    /\ Len(calls) <= Len(CallOrder)
    /\ calls = Take(CallOrder, Len(calls))
    /\ pc \in AllCalls => (Len(calls) = Len(seen) + 1 /\ calls[Len(calls)] = pc)
    /\ pc \notin AllCalls => Len(calls) = Len(seen)
    /\ \A i \in 1..Len(seen) :
          seen[i] = "raise" => (i = Len(seen) /\ Returned /\ ~result.success)
    /\ (Returned /\ result.success) =>
          (calls = CallOrder /\ Len(calls) = IF agent_type = "planning" THEN 1 ELSE 4)

\* An Asset-Prep request whose third call fails: tweets is the last call made,
\* suggestions is never sent.
C16_Witness ==
    /\ Returned
    /\ agent_type = "asset_prep"
    /\ calls = <<"taglines", "short_description", "tweets">>
    /\ Len(seen) = 3
    /\ seen[3] = "raise"
    /\ ~result.success

\* ------------------------------------ more properties of SpecFunctions
\* The tasks of a timeline in the order its phases and their tasks appear.
TasksInOrder(timeline) ==
    Flatten([i \in 1..Len(timeline.items) |-> DictGet(timeline.items[i], "tasks", JList(<<>>))])

IsHigh(task) == DictGet(task, "priority", JNull) = JStr(<<"High">>)

MilestoneOf(task) ==
    JStr(DictGet(task, "name", JNull).s \o <<" - ">> \o DictGet(task, "due_date", JNull).s)

HighTasks(timeline) == SelectSeq(TasksInOrder(timeline), IsHigh)

\* C13: for every timeline, the key milestones are at most 5, and they are
\* "<name> - <due_date>" of the first five tasks whose priority is exactly
\* "High", in the order the phases and their tasks appear in the timeline.
C13_FirstFiveHighTasks ==
    FnReturned("extract_milestones") =>
        LET high == HighTasks(Arg("arg"))
        IN  /\ caught = <<>>
            /\ Returns.type = "list"
            /\ Len(Returns.items) <= 5
            /\ Len(Returns.items) = IF Len(high) < 5 THEN Len(high) ELSE 5
            /\ \A i \in 1..Len(Returns.items) : Returns.items[i] = MilestoneOf(high[i])

\* Seven tasks in two phases, the second not High and the others High: tasks
\* 1, 3, 4, 5, 6 make the milestones, and their due dates are not in order.
C13_Witness ==
    /\ FnReturned("extract_milestones")
    /\ Len(TasksInOrder(Arg("arg"))) = 7
    /\ Len(Arg("arg").items[1].items[2].items) = 2
    /\ Len(HighTasks(Arg("arg"))) = 6
    /\ ~IsHigh(TasksInOrder(Arg("arg"))[2])
    /\ Len(Returns.items) = 5
    /\ Returns.items[2] = JStr(<<"Task ", "3", " - ", "2", " days before launch">>)
    /\ Returns.items[5] = JStr(<<"Task ", "6", " - ", "4", " days before launch">>)

\* The line scanners: the lines of the model text, and each line as the
\* function in hand tests and keeps it (clean_text for suggestions, strip for
\* insights).
ListFn == calls \in {<<"generate_suggestions">>, <<"generate_insights">>}

ScannerReturned == pc = "returned" /\ ListFn

TextLines == SplitLines(TextOf(Arg("arg").items).s, <<>>)

Kept(line) == IF calls = <<"generate_suggestions">> THEN CleanPieces(line) ELSE Strip(line)

ListMarkers == {"-", "BULLET"} \cup Digits

StartsListed(line) == line # <<>> /\ line[1] \in ListMarkers

TemplateList ==
    IF calls = <<"generate_suggestions">> THEN FallbackSuggestions(Foo, Devs)
    ELSE FallbackInsights(JStr(<<"AI">>))

\* The lines that qualify, each as it is kept, in the order of the text.
KeptOf(lines) == [i \in 1..Len(lines) |-> JStr(Kept(lines[i]))]

WhitespaceRun(s) == \E i \in 1..(Len(s) - 1) : s[i] \in Whitespace /\ s[i + 1] \in Whitespace

Normalised(s) == (\A i \in 1..Len(s) : s[i] \notin Markdown) /\ ~WhitespaceRun(s)

\* C15 as the specification states it: every suggestion and every insight
\* returned holds no emphasis mark (*, _, grave accent) and no run of two or
\* more whitespace characters, whatever the model text.
C15_FreeTextNormalised ==
    ScannerReturned => \A i \in 1..Len(Returns.items) : Normalised(Returns.items[i].s)

\* --------------------------------------- the properties of SpecSingleton
\* Request r called get_agent with a user id and was handed an agent.
AskedFor(r) ==
    /\ handlers[r].pc = "responded"
    /\ handlers[r].agent_instance # NoAgent
    /\ handlers[r].endpoint \in PassingId
    /\ handlers[r].user_id # ""

HandedAnother(r) == AskedFor(r) /\ handlers[r].agent_instance.user_id # handlers[r].user_id

\* Two requests that ask for different users are being handled at once.
Concurrent ==
    \E r1, r2 \in Clients :
        /\ r1 # r2
        /\ handlers[r1].pc = "pending" /\ handlers[r1].endpoint \in PassingId
        /\ handlers[r2].pc = "pending" /\ handlers[r2].endpoint \in PassingId
        /\ handlers[r1].user_id # "" /\ handlers[r2].user_id # ""
        /\ handlers[r1].user_id # handlers[r2].user_id

Handed(r) == handlers[r].agent_instance = NoAgent /\ handlers'[r].agent_instance # NoAgent

FrameType(frame) == DictGet(frame, "type", JNull).s[1]

Frames == stream.frames

FrameTypes == [i \in 1..Len(Frames) |-> FrameType(Frames[i])]

Terminal == {"complete", "error"}

\* The types of the frames of a stream: tokens, then at most one terminal frame.
TokensThenTerminal(types) ==
    /\ \A i \in 1..Len(types) : types[i] \in {"token"} \cup Terminal
    /\ \A i \in 1..Len(types) : types[i] \in Terminal => i = Len(types)

DoneOf(frame) == DictGet(frame, "done", JNull)

\* The request was accepted and the generator has run.
Streaming == stream.status = 200 /\ stream.pc # "accepted"

\* C18 as the specification states it: for a non-blank message the frames
\* are one start frame first, then token frames, then one terminal frame after
\* which nothing is emitted, the agent being called once after the start frame.
C18_StartFrameAlwaysFirst ==
    Streaming =>
        /\ FrameTypes[1] = "start"
        /\ TokensThenTerminal(Tail(FrameTypes))
        /\ stream.pc = "closed" => FrameTypes[Len(FrameTypes)] \in Terminal

\* C18: for a non-blank message, when get_agent raises the only frame is an
\* error frame, with no start frame and no call of the agent; otherwise the
\* frames are one start frame first, then zero or more token frames, then one
\* terminal frame (complete when the agent call returned, error when it raised)
\* after which nothing is emitted; done is false on every token frame and true
\* on the terminal frame; the agent is called at most once, only after the
\* start frame, and has returned before the first token frame.
C18_FramesInOrder ==
    /\ stream.status # 200 => (Frames = <<>> /\ stream.chats = 0)
    /\ stream.pc = "accepted" => (Frames = <<>> /\ stream.chats = 0)
    /\ Streaming =>
          /\ Frames # <<>>
          /\ stream.agent_instance = NoAgent =>
                /\ FrameTypes = <<"error">>
                /\ stream.chats = 0
          /\ stream.agent_instance # NoAgent =>
                /\ FrameTypes[1] = "start"
                /\ TokensThenTerminal(Tail(FrameTypes))
                /\ stream.chats = IF Len(Frames) > 1 THEN 1 ELSE 0
                /\ stream.pc = "start" <=> Len(Frames) = 1
                /\ FrameTypes[Len(Frames)] = "error" => Len(Frames) = 2
          /\ \A i \in 1..Len(Frames) :
                /\ FrameTypes[i] = "token" => DoneOf(Frames[i]) = JBool(FALSE)
                /\ FrameTypes[i] \in Terminal => DoneOf(Frames[i]) = JBool(TRUE)
          /\ stream.pc \in {"complete", "error"} <=> FrameTypes[Len(Frames)] \in Terminal /\ stream.pc # "closed"
          /\ stream.pc = "closed" => FrameTypes[Len(Frames)] \in Terminal

\* The answer "aaaaa": the token "aaaa" inside the loop, at index 3, the
\* token "a" after it, then the completion frame.
C18_Witness ==
    /\ stream.pc = "closed"
    /\ stream.response_text = <<"a", "a", "a", "a", "a">>
    /\ FrameTypes = <<"start", "token", "token", "complete">>
    /\ DictGet(Frames[2], "content", JNull).s = <<"a", "a", "a", "a">>
    /\ DictGet(Frames[3], "content", JNull).s = <<"a">>
    /\ DictGet(Frames[4], "content", JNull).s = stream.response_text

FieldsOf(frame) == DictKeys(frame)

\* C19 as the specification states it: every frame has a type among start,
\* token, complete and error, carries a done field, and holds no field other
\* than type, done, content and accumulated.
C19_EveryFrameCarriesDone ==
    \A i \in 1..Len(Frames) :
        /\ FrameType(Frames[i]) \in {"start", "token", "complete", "error"}
        /\ DictHas(Frames[i], "done")
        /\ FieldsOf(Frames[i]) \subseteq {"type", "done", "content", "accumulated"}

\* C19: every frame has a type among start, token, complete and error.  The
\* start frame holds its type and nothing else, no done field; a token frame
\* holds content, accumulated and done, which is false; the complete frame
\* holds content and done, which is true; the error frame holds error, the
\* text of the exception, and done, which is true.
C19_FrameShapes ==
    \A i \in 1..Len(Frames) :
        LET frame == Frames[i]
            type == DictGet(frame, "type", JNull)
        IN  /\ type.type = "string"
            /\ type.s[1] \in {"start", "token", "complete", "error"}
            /\ type.s[1] = "start" => FieldsOf(frame) = {"type"}
            /\ type.s[1] = "token" =>
                  /\ FieldsOf(frame) = {"type", "content", "accumulated", "done"}
                  /\ DoneOf(frame) = JBool(FALSE)
                  /\ DictGet(frame, "content", JNull).type = "string"
                  /\ DictGet(frame, "accumulated", JNull).type = "string"
            /\ type.s[1] = "complete" =>
                  /\ FieldsOf(frame) = {"type", "content", "done"}
                  /\ DoneOf(frame) = JBool(TRUE)
                  /\ DictGet(frame, "content", JNull) = JStr(stream.response_text)
            /\ type.s[1] = "error" =>
                  /\ FieldsOf(frame) = {"type", "error", "done"}
                  /\ DoneOf(frame) = JBool(TRUE)
                  /\ DictGet(frame, "error", JNull).type = "string"

\* A stream that yielded frames of three types and ended: start, token,
\* complete.
C19_Witness ==
    /\ stream.pc = "closed"
    /\ FrameTypes = <<"start", "token", "complete">>
    /\ FieldsOf(Frames[1]) = {"type"}
    /\ FieldsOf(Frames[2]) = {"type", "content", "accumulated", "done"}
    /\ FieldsOf(Frames[3]) = {"type", "content", "done"}

\* --------------------------------------- the JSON extractors on their own
ExtractorReturned ==
    /\ pc = "returned"
    /\ calls \in {<<"extract_structured_data">>, <<"extract_json_from_response">>}

RawText == Arg("arg").items

LeftBraces == {i \in 1..Len(RawText) : RawText[i] = Ch("{")}

\* The right braces that come after some left brace.
RightBraces == {j \in 1..Len(RawText) : RawText[j] = Ch("}") /\ \E i \in LeftBraces : i < j}

Submitted == DictGet(locals, "submitted", JNull)

NoJsonPath ==
    IF calls = <<"extract_structured_data">>
    THEN JObj(<<Member("taglines", TextOf(RawText))>>)
    ELSE JObj(<<Member("content", TextOf(RawText))>>)

\* C20: the JSON extractors hand the parser exactly the span of the raw text
\* from its first "{" to its last "}", once; when no "{" is followed by a "}"
\* the parser is not called and the no-JSON result is returned; and when the
\* span does not parse the no-JSON result is returned too, no shorter span
\* being tried.
C20_FirstBraceToLastBrace ==
    ExtractorReturned =>
        /\ caught = <<>>
        /\ RightBraces = {} =>
              /\ DictGet(locals, "loads", JNull) = JNum(0)
              /\ Submitted = JNull
              /\ Returns = NoJsonPath
        /\ RightBraces # {} =>
              /\ DictGet(locals, "loads", JNull) = JNum(1)
              /\ Submitted = JList(SubSeq(RawText, SetMin(LeftBraces), SetMax(RightBraces)))
              /\ ~JsonLoads(Submitted.items).ok => Returns = NoJsonPath

\* "{" "notes": [] "}" "{" "}": the span is the whole text, which is no JSON,
\* and the object at its start is not tried.
C20_Witness ==
    /\ ExtractorReturned
    /\ calls = <<"extract_structured_data">>
    /\ RawText = <<Ch("{"), Stray, Ch("}"), Ch("{"), Ch("}")>>
    /\ Submitted = JList(RawText)
    /\ Returns = NoJsonPath

\* ------------------------------------------------------------ missing fields
\* The fields of its agent that the request in hand does not carry.
Missing == {f \in RequestFields(agent_type) : ~DictHas(request, f)}

\* process has returned for a request that lacks a field.
ProcessedWithMissing == pc = "done" /\ agent_type \in KnownAgents /\ Missing # {}

CouldNotParseEmpty ==
    FormatResponse(FALSE, JNull, JStr(<<"Planning failed: ", "Could not parse date: ">>),
                   "planning")

\* C21 as stated: a missing request field is read as the empty string, and
\* process never returns a failure that the missing field caused: a request
\* that lacks a field fails only after a model call was made, or over the
\* launch date it does carry.
C21_MissingFieldsNeverFail ==
    ProcessedWithMissing =>
        /\ \A f \in Missing : Arg(f) = JStr(<<>>)
        /\ ~agent_result.success => (calls # <<>> \/ "launch_date" \notin Missing)

\* C21 as the code has it: a missing field is read as the empty string, except
\* tone, read as "professional"; a planning request without launch_date fails
\* before any model call with "Planning failed: Could not parse date: "; any
\* other request that lacks fields fails only over the launch date it carries
\* (unparseable, or in the past), when its model call raised or, for planning,
\* when the milestones could not be extracted; the fallback
\* tweets of a request without product_name and target_audience are written
\* around empty names.
C21_MissingFieldDefaults ==
    ProcessedWithMissing =>
        /\ \A f \in Missing :
              Arg(f) = IF f = "tone" THEN JStr(<<"professional">>) ELSE JStr(<<>>)
        /\ IF agent_type = "planning" /\ "launch_date" \in Missing
           THEN /\ agent_result = CouldNotParseEmpty
                /\ result = WrapResult(CouldNotParseEmpty, "planning")
                /\ calls = <<>>
           ELSE ~agent_result.success =>
                   \/ /\ calls # <<>>
                      /\ \/ seen[Len(seen)] = "raise"
                         \/ agent_type = "planning" /\ Len(caught) = 1
                   \/ /\ calls = <<>>
                      /\ agent_type = "planning"
                      /\ LET launch_date == ParseLaunchDate(Arg("launch_date"), now)
                         IN  \/ ~launch_date.ok
                             \/ CalculateTimelineDays(launch_date.val, now) < 0
        /\ (/\ agent_type = "asset_prep"
            /\ agent_result.success
            /\ {"product_name", "target_audience"} \subseteq Missing
            /\ seen[3] \in {"nojson", "malformed"})
              => DictGet(agent_result.data, "tweets", JNull)
                    = FallbackTweets(JStr(<<>>), Arg("elevator_pitch"), JStr(<<>>))

\* An asset request that carries an elevator pitch alone succeeds, its tweets
\* being the fallback ones.
C21_Witness ==
    /\ ProcessedWithMissing
    /\ agent_type = "asset_prep"
    /\ Missing = {"product_name", "target_audience", "tone"}
    /\ agent_result.success
    /\ seen[3] = "nojson"
    /\ DictGet(agent_result.data, "tweets", JNull).items[2]
          = JStr(<<"Excited to share ", " with the world! Built for ",
                   ". Check it out: #ProductHunt #Launch">>)

\* ------------------------------------------------------------ the dispatch
IsPrefix(a, b) == Len(a) <= Len(b) /\ SubSeq(b, 1, Len(a)) = a

\* C22: route_request with one of the three tokens calls the process of the
\* agent of that name and of no other, once: the model calls made are a
\* prefix of that agent's own calls, in order; the envelope it returns holds
\* the success, data and error of that agent's result and the token as
\* agent_type; and between two requests nothing of the earlier one is left,
\* so each request starts from the state the first one started from.
C22_DispatchTable ==
    /\ (pc # "idle" /\ agent_type \in KnownAgents) =>
          /\ invoked = {agent_type}
          /\ IsPrefix(calls, CallOrder)
    /\ (pc = "done" /\ agent_type \in KnownAgents) =>
          /\ agent_result.kind = "dict"
          /\ agent_result.agent_type = agent_type
          /\ result = [kind |-> "AgentResponse", success |-> agent_result.success,
                       data |-> agent_result.data, error |-> agent_result.error,
                       agent_type |-> agent_type]
    /\ pc = "idle" =>
          /\ agent_type = "" /\ request = JObj(<<>>) /\ locals = JObj(<<>>)
          /\ calls = <<>> /\ seen = <<>> /\ invoked = {} /\ caught = <<>>
          /\ agent_result = NoResult /\ result = NoResult

\* A research request answered in full: four model calls, all of the research
\* agent, and the data of its result in the envelope.
C22_Witness ==
    /\ pc = "done"
    /\ agent_type = "research"
    /\ invoked = {"research"}
    /\ calls = ResearchCalls
    /\ result.success
    /\ result.agent_type = "research"
    /\ result.data = agent_result.data
    /\ DictHas(result.data, "competitor_analysis")

\* ------------------------------------------------------------ the singleton
\* The session ids a caller names.
SessionIds == {"", "s1", "s2"}

\* C23: whatever the module global has become after a series of get_agent
\* calls, the next call, its constructors succeeding, (a) with a user id
\* returns an agent of that user and leaves it as the global; (b) keeps the
\* global, and constructs nothing, when the global is of that user, and
\* otherwise returns an agent made in this call; (c) without a user id returns
\* the global as it is, constructing nothing, when there is one, and otherwise
\* one agent made in this call.
C23_SingletonFollowsUserId ==
    \A user_id \in Users \cup {""}, session_id \in SessionIds, by \in Clients :
        LET got == GetAgent(agent, user_id, session_id, by, 2)
        IN  /\ got.ok
            /\ got.val = got.agent
            /\ user_id # "" => got.val.user_id = user_id
            /\ (user_id # "" /\ agent # NoAgent /\ agent.user_id = user_id) =>
                  got.val = agent /\ got.left = 2
            /\ (user_id # "" /\ agent # NoAgent /\ agent.user_id # user_id) =>
                  /\ got.val = ProductHuntLaunchAgent(user_id, session_id, by)
                  /\ got.left = 1
            /\ (user_id = "" /\ agent # NoAgent) => got.val = agent /\ got.left = 2
            /\ (user_id = "" /\ agent = NoAgent) =>
                  got.val = ProductHuntLaunchAgent("", "", by) /\ got.left = 1
            /\ (user_id # "" /\ agent = NoAgent) =>
                  /\ got.val = ProductHuntLaunchAgent(user_id, session_id, by)
                  /\ got.left = 0

\* The agent made while serving r1's chat for alice is the one handed to r2's
\* chat for alice; a request without a user id then gets it as well.
C23_Witness ==
    /\ agent = ProductHuntLaunchAgent("alice", "session_alice", "r1")
    /\ handlers["r2"].pc = "responded"
    /\ handlers["r2"].endpoint = "/api/chat"
    /\ handlers["r2"].user_id = "alice"
    /\ handlers["r2"].agent_instance = agent
    /\ handlers["r1"].pc = "responded"
    /\ handlers["r1"].endpoint = "/api/session/create"
    /\ handlers["r1"].agent_instance = agent

\* ---------------------------------------------------------- user isolation
\* Request r is the only one in flight.
Alone(r) == \A q \in Clients \ {r} : handlers[q].pc = "idle"

\* C24: with the requests served one after the other, a request that carries
\* a user id, on /api/chat, /api/chat-stream or /api/analyze-product, is never
\* handed an agent of another of the users.
C24_UserIsolation ==
    \A r \in Clients :
        (/\ Alone(r)
         /\ handlers[r].user_id # ""
         /\ handlers[r].agent_instance # NoAgent)
            => handlers[r].agent_instance.user_id \notin Users \ {handlers[r].user_id}

\* C25: whatever the module global has become, get_agent(user_id, session_id)
\* with both ids given returns an agent whose session id is session_id.
C25_SessionFollowsRequest ==
    \A user_id \in Users, session_id \in SessionIds \ {""}, by \in Clients :
        GetAgent(agent, user_id, session_id, by, 2).val.session_id = session_id

\* ------------------------------------------------- the text of the stream
ContentOf(frame) == DictGet(frame, "content", JNull).s

AccumulatedOf(frame) == DictGet(frame, "accumulated", JNull).s

\* The positions of the token frames among the frames.
TokenAt == {i \in 1..Len(Frames) : FrameType(Frames[i]) = "token"}

RECURSIVE ContentsUpTo(_)
\* The contents of the token frames among the first n frames, joined.
ContentsUpTo(n) ==
    IF n = 0 THEN <<>>
    ELSE ContentsUpTo(n - 1) \o (IF n \in TokenAt THEN ContentOf(Frames[n]) ELSE <<>>)

\* The stream has ended with its completion frame.
Completed ==
    /\ stream.pc \in {"complete", "closed"}
    /\ Frames # <<>>
    /\ FrameType(Frames[Len(Frames)]) = "complete"

\* C26 as stated: on a completed stream the contents of the token frames,
\* joined, are the content of the completion frame and the response text.
C26_TokensSpellTheResponse ==
    Completed =>
        /\ ContentOf(Frames[Len(Frames)]) = stream.response_text
        /\ ContentsUpTo(Len(Frames)) = stream.response_text

\* C26: on a completed stream the content of the completion frame is the
\* response text; the contents of the token frames, joined, are a prefix of it,
\* and what they leave out is whitespace only: nothing when the text does not
\* end in whitespace, and the whole text when it is blank.
C26_TokensSpellAllButBlankTail ==
    Completed =>
        LET text == stream.response_text
            sent == ContentsUpTo(Len(Frames))
            tail == SubSeq(text, Len(sent) + 1, Len(text))
        IN  /\ ContentOf(Frames[Len(Frames)]) = text
            /\ IsPrefix(sent, text)
            /\ Strip(tail) = <<>>
            /\ (text # <<>> /\ text[Len(text)] \notin Whitespace) => sent = text
            /\ Strip(text) = <<>> => (TokenAt = {} /\ sent = <<>>)

\* The answer "a. ": the token "a.", then the completion frame with "a. ".
C26_Witness ==
    /\ Completed
    /\ stream.response_text = <<"a", ".", " ">>
    /\ FrameTypes = <<"start", "token", "complete">>
    /\ ContentsUpTo(Len(Frames)) = <<"a", ".">>
    /\ ContentOf(Frames[3]) = <<"a", ".", " ">>

\* C27: in every state of a stream, each token frame's accumulated field is
\* the contents of the token frames up to and including it, joined, and is a
\* prefix of the response text; no token frame's content is blank; and there
\* are at most as many token frames as the response has characters.  Each new
\* frame of the loop is yielded with the loop's index further on, and the index
\* never passes the length of the text: the loop ends.
C27_TokenFramesAccumulate ==
    /\ [](/\ \A i \in TokenAt :
                /\ AccumulatedOf(Frames[i]) = ContentsUpTo(i)
                /\ IsPrefix(AccumulatedOf(Frames[i]), stream.response_text)
                /\ Strip(ContentOf(Frames[i])) # <<>>
          /\ Cardinality(TokenAt) <= Len(stream.response_text)
          /\ stream.i <= Len(stream.response_text))
    /\ [][(stream'.pc = "token" /\ stream'.frames # stream.frames) => stream'.i > stream.i]_vars

\* The answer ".....": five token frames for five characters, the fourth
\* accumulating "....".
C27_Witness ==
    /\ Completed
    /\ stream.response_text = <<".", ".", ".", ".", ".">>
    /\ TokenAt = 2..6
    /\ AccumulatedOf(Frames[5]) = <<".", ".", ".", ".">>
    /\ ContentOf(Frames[5]) = <<".">>

\* ------------------------------------------------------------ /api/chat
\* Request r is a /api/chat request that has been answered after its chat
\* call was made.
ChatAnswered(r) ==
    /\ handlers[r].pc = "responded"
    /\ handlers[r].endpoint = "/api/chat"
    /\ handlers[r].reply # NoReply

\* C28: whenever agent_instance.chat returned, a str or a result object,
\* /api/chat answers 200 with the extracted text in its response field; it
\* answers 500, with a detail that starts "Agent error: ", only when the chat
\* call raised.
C28_ChatAnswersWhatTheAgentSaid ==
    \A r \in Clients :
        ChatAnswered(r) =>
            LET h == handlers[r]
            IN  /\ h.reply.kind # "raise" =>
                      (h.status = 200 /\ h.response = ResponseText(h.reply))
                /\ h.status = 500 => (h.reply.kind = "raise" /\ h.detail[1] = "Agent error: ")

\* ------------------------------------------------------- the memory hooks
HookReturned(fn) == pc = "returned" /\ calls = <<fn>>

MessagesIn == DictGet(Arg("arg"), "messages", JNull).items

MessagesOut == DictGet(locals, "messages", JNull).items

RetrieveIn == DictGet(Arg("arg"), "retrieve", JNull).items

\* The last message is a user message that is no tool result.
LastIsUserQuery ==
    /\ RoleOf(MessagesIn[Len(MessagesIn)]) = "user"
    /\ ~DictHas(BlockOf(MessagesIn[Len(MessagesIn)]), "toolResult")

\* A retrieval raised; a memory with a text that is not blank was retrieved.
RetrievalRaised == \E i \in 1..Len(RetrieveIn) : RetrieveIn[i] = JStr(<<"raise">>)

SomeMemory ==
    \E i \in 1..Len(RetrieveIn) : \E j \in 1..Len(RetrieveIn[i].items) :
        LET memory == RetrieveIn[i].items[j]
        IN  /\ memory.type = "object"
            /\ Strip(DictGet(DictGet(memory, "content", JObj(<<>>)), "text", JStr(<<>>)).s) # <<>>

\* C29: neither hook raises, whatever the memory service does.  When a
\* retrieval raises, the messages are left as they were and the error is
\* logged; the last message is changed only when it is a user message that is
\* no tool result, no retrieval raised and a memory that is not blank was
\* retrieved, and then its text is the context followed by the original text,
\* the other messages being untouched.  When create_event raises, the hook
\* logs the error and returns.
C29_MemoryFailuresNeverFailTheChat ==
    /\ HookReturned("retrieve_product_context") =>
          /\ caught = <<>>
          /\ DictHas(locals, "return")
          /\ RetrievalRaised => MessagesOut = MessagesIn
          /\ (RetrievalRaised /\ LastIsUserQuery) => DictGet(locals, "logged", JNull) = JNum(1)
          /\ MessagesOut # MessagesIn <=> (LastIsUserQuery /\ ~RetrievalRaised /\ SomeMemory)
          /\ Len(MessagesOut) = Len(MessagesIn)
          /\ \A i \in 1..(Len(MessagesIn) - 1) : MessagesOut[i] = MessagesIn[i]
          /\ MessagesOut # MessagesIn =>
                LET text == DictGet(BlockOf(MessagesOut[Len(MessagesOut)]), "text", JNull).s
                    original == DictGet(BlockOf(MessagesIn[Len(MessagesIn)]), "text", JNull).s
                IN  /\ text[1] = "Product Launch Context:\n"
                    /\ SubSeq(text, Len(text) - Len(original), Len(text)) = <<"\n\n">> \o original
    /\ HookReturned("save_launch_interaction") =>
          /\ caught = <<>>
          /\ DictHas(locals, "return")
          /\ (DictGet(Arg("arg"), "create_event", JNull) = JStr(<<"raise">>)
              /\ DictGet(locals, "saved", JNull) # JNull)
                => DictGet(locals, "logged", JNull) = JNum(1)

\* The user's question arrives, the preferences are retrieved and the
\* retrieval of the semantic memories raises: the question is left as it was.
C29_Witness ==
    /\ HookReturned("retrieve_product_context")
    /\ MessagesIn = <<Message("user", "text", <<"q">>)>>
    /\ RetrieveIn = <<JList(<<Memory(<<"m">>)>>), JStr(<<"raise">>)>>
    /\ MessagesOut = MessagesIn
    /\ DictGet(locals, "queries", JNull) = JNum(2)
    /\ DictGet(locals, "logged", JNull) = JNum(1)

\* The tasks of a timeline, phase after phase.
RECURSIVE TasksOf(_)
TasksOf(phases) ==
    IF phases = <<>> THEN <<>>
    ELSE DictGet(Head(phases), "tasks", JList(<<>>)).items \o TasksOf(Tail(phases))

DueDate(task) == DictGet(task, "due_date", JStr(<<>>)).s

OnLaunchDay(task) == DueDate(task) # <<>> /\ DueDate(task)[1] \in
    {"Launch day (12:01 AM PST)", "Launch day (morning)"}

\* How many days before the launch a task is due, as its due_date words it.
DaysBeforeLaunch(task) == IF OnLaunchDay(task) THEN 0 ELSE NumOf(DueDate(task)[1])

\* The planning request in hand was answered with the fallback timeline.
FellBackToTimeline ==
    /\ Returned
    /\ agent_type = "planning"
    /\ result.success = TRUE
    /\ DictGet(result.data, "timeline", JNull) = FallbackFor("timeline")

\* C30: for every days_until_launch d >= 0 the tasks of the fallback timeline
\* are in chronological order: the "N days before launch" offsets are
\* non-negative and never increase from one task to the next, and the
\* timeline ends with the two launch-day tasks.
C30_FallbackChronological ==
    FellBackToTimeline =>
        LET tasks == TasksOf(DictGet(result.data, "timeline", JNull).items)
        IN  /\ Len(tasks) >= 2
            /\ OnLaunchDay(tasks[Len(tasks) - 1]) /\ OnLaunchDay(tasks[Len(tasks)])
            /\ \A i \in 1..Len(tasks) : DaysBeforeLaunch(tasks[i]) >= 0
            /\ \A i \in 1..(Len(tasks) - 1) :
                  DaysBeforeLaunch(tasks[i]) >= DaysBeforeLaunch(tasks[i + 1])
====
